---------------------------- MODULE Spec2Model ----------------------------
(* A model of cozy-keys' note pipeline: the MIDI codec (encodeMidi,        *)
(* decodeMidiToEvents, getRecordingEvents, ticksToMs), the keyboard input  *)
(* handlers and key animation driver of Piano.tsx, and its synchronized    *)
(* playback engine.                                                        *)
(*                                                                         *)
(* Numbers.  The program computes with IEEE doubles.  The model keeps      *)
(* every non-integer quantity as an exact fraction [n, d] (d > 0), so a    *)
(* time of 25/12 ms is 25/12 and not a rounded decimal.  Where the double  *)
(* result differs from the exact one in a way a comparison can see, the    *)
(* operator says so and follows the double.                                *)
EXTENDS Integers, Sequences, FiniteSets, Bags, TLC

VARIABLES
    \* ---- MIDI codec (useRecording.ts encodeMidi, App.tsx decode) ----
    recEvents,      \* the Recording's event list handed to encodeMidi
    midiBytes,      \* the stored MIDI file: a sequence of bytes 0..255
    handBuilt,      \* how a hand-constructed file was put together, or NoShape
    decoded,        \* the RecordingEventsResult of getRecordingEvents, or NoResult
    codecPc,        \* "recorded" | "stored" | "hang" | "decoded" | "fetch_failed"
    timing,         \* a conversion by utils/midiTiming.ts: its arguments and results
    \* ---- hooks/useRecording.ts, App.tsx handleNoteOn ----
    isRecording,    \* the isRecording state, as the rendered callbacks see it
    isRecordingRef, \* isRecordingRef
    currentRecording, \* currentRecordingRef: NoRecording or [id, startedAt, events]
    finalizeTimers, \* pending setTimeout(checkAudioAndAdd, 100), oldest first; each
                    \* carries what currentRecordingRef held at the stop (history)
    recordings,     \* the recordings state, newest first
    takes,          \* the startRecording calls that started a recording (history)
    isInitialized,  \* useSound isInitializedRef
    pendingNoteOns, \* handleNoteOn calls awaiting initializeAudio(), oldest first
    storageLoaded,  \* the mount effect of useRecording has read localStorage
    \* ---- Piano.tsx refs ----
    activeNotes,    \* activeNotesRef: the pressed set, in insertion order
    playbackNotes,  \* playbackNotesRef: the ghost set, in insertion order
    keyAnimations,  \* keyAnimationsRef: note -> [progress, target], created lazily
    animationId,    \* animationIdRef: TRUE while an animation frame is requested
    animationFrames, \* the animate callbacks requested and not yet called
    pointerDown,    \* pointerDownRef
    pointerNote,    \* pointerNoteRef: a note or Null
    isSoundOn,      \* the isSoundOn prop
    \* ---- Piano.tsx synchronized playback ----
    playbackEvents,     \* playbackEventsRef
    playbackEventIndex, \* playbackEventIndexRef
    playbackRaf,        \* playbackRafRef: Null, or the session whose frame handle it holds
    playbackLastTime,   \* playbackLastTimeRef, ms
    playbackRequestId,  \* playbackRequestIdRef: the session token
    sessions,           \* the startSynchronizedPlayback calls in flight, by token
    waiters,            \* sessions inside ensureAudioDurationMs, oldest wait first
    rafPending,         \* sessions whose run callback is requested, oldest request first
    audio,              \* the audio elements: id -> [paused, duration in ms (0: unknown)]
    lastPlayback,       \* what the playback engine did last (history)
    \* ---- collaborators and environment ----
    agentTimers,    \* useAgent: the pending setTimeout callbacks of the tools, a bag
    agentNotes,     \* useAgent activeNotesRef: the notes the tools hold, in insertion order
    calls,          \* collaborator calls made by the handler that ran last
    lastIntent,     \* the note intent an input source reported last
    opsLeft,        \* inputs the environment may still deliver
    framesLeft      \* animation frames that may still fire (-1: no limit)

recorderVars == <<isRecording, isRecordingRef, currentRecording, finalizeTimers,
                  recordings, takes, isInitialized, pendingNoteOns, storageLoaded>>

codecVars == <<recEvents, midiBytes, handBuilt, decoded, codecPc, timing, recorderVars>>

keyVars == <<activeNotes, keyAnimations, animationId, animationFrames, pointerDown,
             pointerNote,
             isSoundOn, agentTimers, agentNotes, calls, lastIntent>>

playbackVars == <<playbackNotes, playbackEvents, playbackEventIndex, playbackRaf,
                  playbackLastTime, playbackRequestId, sessions, waiters, rafPending,
                  audio, lastPlayback>>

budgetVars == <<opsLeft, framesLeft>>

vars == <<codecVars, keyVars, playbackVars, budgetVars>>

Max(a, b) == IF a >= b THEN a ELSE b

-----------------------------------------------------------------------------
(* Natural numbers of any size: the limbs of a number in base 2^15, least   *)
(* significant first, no leading zero limb (zero is the empty sequence).    *)

\* F(v) with v evaluated once, wherever the expression is evaluated
Let(v, F(_)) == CHOOSE r \in {F(x) : x \in {v}} : TRUE

RECURSIVE Pow2(_)
Pow2(n) == IF n = 0 THEN 1 ELSE 2 * Pow2(n - 1)

Limb(x, i) == IF i <= Len(x) THEN x[i] ELSE 0

RECURSIVE BTrim(_)
BTrim(x) ==
    Let(x, LAMBDA v :
        IF v = <<>> THEN v
        ELSE IF v[Len(v)] = 0 THEN BTrim(SubSeq(v, 1, Len(v) - 1)) ELSE v)

RECURSIVE BFromInt(_)
BFromInt(n) == IF n = 0 THEN <<>> ELSE <<n % 32768>> \o BFromInt(n \div 32768)

RECURSIVE BToInt(_)
BToInt(x) == IF x = <<>> THEN 0 ELSE x[1] + 32768 * BToInt(Tail(x))

RECURSIVE BCmpFrom(_, _, _)
BCmpFrom(a, b, i) ==
    IF i = 0 THEN 0
    ELSE IF a[i] < b[i] THEN -1
    ELSE IF a[i] > b[i] THEN 1
    ELSE BCmpFrom(a, b, i - 1)

\* -1, 0 or 1 as a < b, a = b or a > b
BCmp(a, b) ==
    Let(<<a, b>>, LAMBDA p :
        IF Len(p[1]) < Len(p[2]) THEN -1
        ELSE IF Len(p[1]) > Len(p[2]) THEN 1
        ELSE BCmpFrom(p[1], p[2], Len(p[1])))

RECURSIVE BAddFrom(_, _, _, _)
BAddFrom(a, b, i, carry) ==
    IF i > Len(a) /\ i > Len(b) THEN (IF carry = 0 THEN <<>> ELSE <<carry>>)
    ELSE LET s == Limb(a, i) + Limb(b, i) + carry
         IN  <<s % 32768>> \o BAddFrom(a, b, i + 1, s \div 32768)

BAdd(a, b) == Let(<<a, b>>, LAMBDA p : BAddFrom(p[1], p[2], 1, 0))

RECURSIVE BSubFrom(_, _, _, _)
BSubFrom(a, b, i, borrow) ==
    IF i > Len(a) THEN <<>>
    ELSE LET d == a[i] - Limb(b, i) - borrow
         IN  <<d % 32768>> \o BSubFrom(a, b, i + 1, IF d < 0 THEN 1 ELSE 0)

\* a - b for a >= b
BSub(a, b) == Let(<<a, b>>, LAMBDA p : BTrim(BSubFrom(p[1], p[2], 1, 0)))

RECURSIVE BMulSmallFrom(_, _, _, _)
BMulSmallFrom(a, k, i, carry) ==
    IF i > Len(a) THEN (IF carry = 0 THEN <<>> ELSE <<carry>>)
    ELSE LET p == a[i] * k + carry
         IN  <<p % 32768>> \o BMulSmallFrom(a, k, i + 1, p \div 32768)

\* a * k for 0 <= k < 32768
BMulSmall(a, k) ==
    Let(<<a, k>>, LAMBDA p :
        IF p[2] = 0 THEN <<>> ELSE BMulSmallFrom(p[1], p[2], 1, 0))

RECURSIVE BMulFrom(_, _, _)
BMulFrom(a, b, j) ==
    IF j > Len(b) THEN <<>>
    ELSE BAdd(BMulSmall(a, b[j]), <<0>> \o BMulFrom(a, b, j + 1))

BMul(a, b) == Let(<<a, b>>, LAMBDA p : BTrim(BMulFrom(p[1], p[2], 1)))

RECURSIVE BDivSmallFrom(_, _, _, _)
BDivSmallFrom(a, k, i, rem) ==
    IF i = 0 THEN <<>>
    ELSE LET x == rem * 32768 + a[i]
         IN  Append(BDivSmallFrom(a, k, i - 1, x % k), x \div k)

\* floor(a / k) for 0 < k <= 32768
BDivSmall(a, k) ==
    Let(<<a, k>>, LAMBDA p : BTrim(BDivSmallFrom(p[1], p[2], Len(p[1]), 0)))

Zeros(n) == [i \in 1..n |-> 0]

\* a * 2^n
BShl(a, n) ==
    Let(<<a, n>>, LAMBDA p :
        IF p[1] = <<>> \/ p[2] = 0 THEN p[1]
        ELSE IF p[2] % 15 = 0 THEN Zeros(p[2] \div 15) \o p[1]
        ELSE Zeros(p[2] \div 15) \o BMulSmall(p[1], Pow2(p[2] % 15)))

\* floor(a / 2^n)
BShr(a, n) ==
    Let(<<a, n>>, LAMBDA p :
        IF p[2] = 0 THEN p[1]
        ELSE IF p[2] \div 15 >= Len(p[1]) THEN <<>>
        ELSE IF p[2] % 15 = 0 THEN SubSeq(p[1], p[2] \div 15 + 1, Len(p[1]))
        ELSE BDivSmall(SubSeq(p[1], p[2] \div 15 + 1, Len(p[1])), Pow2(p[2] % 15)))

RECURSIVE BitLen(_)
BitLen(n) == IF n = 0 THEN 0 ELSE 1 + BitLen(n \div 2)

\* the number of binary digits of a
BBitLen(a) == IF a = <<>> THEN 0 ELSE 15 * (Len(a) - 1) + BitLen(a[Len(a)])

BIsOdd(a) == a # <<>> /\ a[1] % 2 = 1

RECURSIVE TrailingZeros(_)
TrailingZeros(n) == IF n % 2 = 1 THEN 0 ELSE 1 + TrailingZeros(n \div 2)

RECURSIVE BTrailingZeros(_)
\* the number of low zero digits of a > 0
BTrailingZeros(a) ==
    IF a[1] = 0 THEN 15 + BTrailingZeros(Tail(a)) ELSE TrailingZeros(a[1])

RECURSIVE BDigit(_, _, _, _)
\* the greatest d with d * b <= x, for x < 32768 * b: d settled down to the
\* binary digit worth bit
BDigit(x, b, d, bit) ==
    IF bit = 0 THEN d
    ELSE IF BCmp(BMulSmall(b, d + bit), x) <= 0 THEN BDigit(x, b, d + bit, bit \div 2)
    ELSE BDigit(x, b, d, bit \div 2)

RECURSIVE BDivModFrom(_, _, _)
\* Long division, one limb at a time: the quotient and the remainder of the
\* limbs of a from limb i up.
BDivModFrom(a, b, i) ==
    IF i > Len(a) THEN [q |-> <<>>, r |-> <<>>]
    ELSE Let(BDivModFrom(a, b, i + 1), LAMBDA above :
         Let(BTrim(<<a[i]>> \o above.r), LAMBDA x :
         Let(BDigit(x, b, 0, 16384), LAMBDA d :
             [q |-> BTrim(<<d>> \o above.q), r |-> BSub(x, BMulSmall(b, d))])))

\* [q |-> floor(a / b), r |-> a mod b] for b > 0
BDivMod(a, b) == Let(<<a, b>>, LAMBDA p : BDivModFrom(p[1], p[2], 1))

-----------------------------------------------------------------------------
(* IEEE 754 binary64 numbers, as JavaScript's Number: the finite value      *)
(* (neg ? -1 : 1) * m * 2^e with m odd, or zero.  Results are rounded to 53 *)
(* binary digits, ties to the even mantissa.  The exponent is not limited   *)
(* (no value of the program nears 2^-1022 or 2^1024), and -0 is 0 (no       *)
(* operation modelled tells them apart).                                    *)

Zero == [neg |-> FALSE, m |-> <<>>, e |-> 0]

\* neg * N * 2^e exactly, with the odd mantissa
Dyadic(neg, N, e) ==
    Let(N, LAMBDA n :
        IF n = <<>> THEN Zero
        ELSE IF BIsOdd(n) THEN [neg |-> neg, m |-> n, e |-> e]
        ELSE Let(BTrailingZeros(n), LAMBDA tz :
                 [neg |-> neg, m |-> BShr(n, tz), e |-> e + tz]))

\* neg * N * 2^e rounded to the nearest double
Rounded(neg, N, e) ==
    Let(N, LAMBDA n :
    Let(BBitLen(n) - 53, LAMBDA drop :
        IF drop <= 0 THEN Dyadic(neg, n, e)
        ELSE Let(BShr(n, drop), LAMBDA q :
             Let(BCmp(BSub(n, BShl(q, drop)), BShl(<<1>>, drop - 1)), LAMBDA half :
                 Dyadic(neg,
                        IF half > 0 \/ (half = 0 /\ BIsOdd(q)) THEN BAdd(q, <<1>>) ELSE q,
                        e + drop)))))

\* the double of an integer n
Double(n) ==
    Let(IF n < 0 THEN -n ELSE n, LAMBDA a :
        IF a = 0 THEN Zero
        ELSE [neg |-> n < 0, m |-> BFromInt(a \div Pow2(TrailingZeros(a))),
              e |-> TrailingZeros(a)])

\* a is an integer below 2^30 in size, and that integer
IsSmallInt(a) == Len(a.m) <= 1 /\ a.e >= 0 /\ a.e <= 15
SmallInt(a) == IF a.m = <<>> THEN 0 ELSE (IF a.neg THEN -1 ELSE 1) * a.m[1] * Pow2(a.e)

Neg(a) == Let(a, LAMBDA v : IF v = Zero THEN v ELSE [v EXCEPT !.neg = ~v.neg])
MathAbs(a) == [a EXCEPT !.neg = FALSE]

\* -1, 0 or 1 as |a| < |b|, |a| = |b| or |a| > |b|, for a and b not zero
CmpMantissas(a, b) ==
    LET top == (BBitLen(a.m) + a.e) - (BBitLen(b.m) + b.e)
        e == IF a.e < b.e THEN a.e ELSE b.e
    IN  IF top < 0 THEN -1
        ELSE IF top > 0 THEN 1
        ELSE BCmp(BShl(a.m, a.e - e), BShl(b.m, b.e - e))

\* -1, 0 or 1 as |a| < |b|, |a| = |b| or |a| > |b|
CmpAbs(a, b) ==
    Let(<<a, b>>, LAMBDA p :
        IF p[1].m = <<>> \/ p[2].m = <<>>
        THEN (IF p[1].m = p[2].m THEN 0 ELSE IF p[1].m = <<>> THEN -1 ELSE 1)
        ELSE CmpMantissas(p[1], p[2]))

\* -1, 0 or 1 as a < b, a = b or a > b
Cmp(a, b) ==
    Let(<<a, b>>, LAMBDA p :
        IF p[1] = p[2] THEN 0
        ELSE IF IsSmallInt(p[1]) /\ IsSmallInt(p[2])
        THEN (IF SmallInt(p[1]) < SmallInt(p[2]) THEN -1 ELSE 1)
        ELSE IF p[1].neg # p[2].neg THEN (IF p[1].neg THEN -1 ELSE 1)
        ELSE IF p[1].neg THEN -CmpAbs(p[1], p[2]) ELSE CmpAbs(p[1], p[2]))

LT(a, b) == Cmp(a, b) < 0
LE(a, b) == Cmp(a, b) <= 0
GT(a, b) == Cmp(a, b) > 0
GE(a, b) == Cmp(a, b) >= 0

\* a + b exactly, for a and b not zero
SumAligned(a, b) ==
    Let(IF a.e < b.e THEN a.e ELSE b.e, LAMBDA e :
    Let(<<BShl(a.m, a.e - e), BShl(b.m, b.e - e)>>, LAMBDA p :
        IF a.neg = b.neg THEN [neg |-> a.neg, m |-> BAdd(p[1], p[2]), e |-> e]
        ELSE IF BCmp(p[1], p[2]) >= 0 THEN [neg |-> a.neg, m |-> BSub(p[1], p[2]), e |-> e]
        ELSE [neg |-> b.neg, m |-> BSub(p[2], p[1]), e |-> e]))

\* a + b exactly
Sum(a, b) ==
    Let(<<a, b>>, LAMBDA p :
        IF IsSmallInt(p[1]) /\ IsSmallInt(p[2])
        THEN Double(SmallInt(p[1]) + SmallInt(p[2]))
        ELSE IF p[1].m = <<>> THEN p[2]
        ELSE IF p[2].m = <<>> THEN p[1]
        ELSE SumAligned(p[1], p[2]))

\* a * b exactly
Product(a, b) ==
    Let(<<a, b>>, LAMBDA p :
        [neg |-> p[1].neg # p[2].neg, m |-> BMul(p[1].m, p[2].m), e |-> p[1].e + p[2].e])

Round(x) == Let(x, LAMBDA v : Rounded(v.neg, v.m, v.e))
Exact(x) == Let(x, LAMBDA v : Dyadic(v.neg, v.m, v.e))

Add(a, b) == Round(Sum(a, b))
Sub(a, b) == Round(Sum(a, Neg(b)))
Mul(a, b) == Round(Product(a, b))

\* a / b for a and b not zero: 55 digits of the quotient and one more for
\* the rest
Quotient(a, b) ==
    Let(Max(0, 53 + 2 + BBitLen(b.m) - BBitLen(a.m)), LAMBDA k :
    Let(BDivMod(BShl(a.m, k), b.m), LAMBDA d :
        Rounded(a.neg # b.neg,
                BAdd(BMulSmall(d.q, 2), IF d.r = <<>> THEN <<>> ELSE <<1>>),
                a.e - b.e - k - 1)))

\* a / b for b # 0
Div(a, b) ==
    Let(<<a, b>>, LAMBDA p : IF p[1].m = <<>> THEN Zero ELSE Quotient(p[1], p[2]))

\* floor(x) as an integer
Floor(x) ==
    Let(x, LAMBDA v :
        IF v.e >= 0 THEN (IF v.neg THEN -1 ELSE 1) * BToInt(BShl(v.m, v.e))
        ELSE Let(BToInt(BShr(v.m, -v.e)), LAMBDA whole :
                 IF v.neg THEN -whole - 1 ELSE whole))

\* Math.round: floor(x + 1/2), as an integer
MathRound(x) == Floor(Exact(Sum(x, [neg |-> FALSE, m |-> <<1>>, e |-> -1])))

\* The doubles the decimal literals of the source denote.
ticksPerMs == Div(Double(48), Double(100))
epsilon == Div(Double(1), Double(100))
easing == Div(Double(15), Double(100))
tenth == Div(Double(1), Double(10))
halfway == Div(Double(1), Double(2))
driftTolerance == Div(Double(5), Double(100))

-----------------------------------------------------------------------------
(* utils/midiTiming.ts                                                     *)

TICKS_PER_QUARTER == 480
MS_PER_QUARTER == 1000
MICROSECONDS_PER_QUARTER == MS_PER_QUARTER * 1000

\* (microsecondsPerQuarter / 1000) / TICKS_PER_QUARTER, in ms per tick
msPerTickFromTempo(microsecondsPerQuarter) ==
    Div(Div(Double(microsecondsPerQuarter), Double(1000)), Double(TICKS_PER_QUARTER))

\* ticksToMs with the default tempo whatever the tempo in effect
ticksToMsDefaultTempo(ticks, microsecondsPerQuarter) ==
    Mul(Double(ticks), msPerTickFromTempo(MICROSECONDS_PER_QUARTER))

\* ticks * msPerTick
ticksToMs(ticks, microsecondsPerQuarter) ==
    Mul(Double(ticks), msPerTickFromTempo(microsecondsPerQuarter))

\* Math.max(0, Math.round(ms / msPerTick))
msToTicks(ms, microsecondsPerQuarter) ==
    Max(0, MathRound(Div(ms, msPerTickFromTempo(microsecondsPerQuarter))))

\* The default parameter value: microsecondsPerQuarter = MICROSECONDS_PER_QUARTER
\* when the argument is omitted (Omitted stands for undefined).
Omitted == -1
tempoArgument(microsecondsPerQuarter) ==
    IF microsecondsPerQuarter = Omitted THEN MICROSECONDS_PER_QUARTER
    ELSE microsecondsPerQuarter

-----------------------------------------------------------------------------
(* hooks/useRecording.ts: encodeMidi                                       *)
(*                                                                         *)
(* A RecordingEvent is [type, note, velocity, time]; velocity and time are *)
(* doubles.                                                                *)

Ev(type, note, velocity, time) ==
    [type |-> type, note |-> note, velocity |-> velocity, time |-> time]

\* writeVarLen packs the 7-bit groups of val into the 32-bit word v and then
\* unpacks v byte by byte.  v is kept as its four bytes, lowest first, so the
\* shifts lose and sign-extend exactly what a 32-bit word does.
Word32(b) == <<b, 0, 0, 0>>
Shl8Or(v, b) == <<b, v[1], v[2], v[3]>>
Sar8(v) == <<v[2], v[3], v[4], IF v[4] >= 128 THEN 255 ELSE 0>>

\* while ((val >>= 7)) { v <<= 8; v |= ((val & 0x7F) | 0x80); }
RECURSIVE packVarLen(_, _)
packVarLen(val, v) ==
    LET shifted == val \div 128
    IN  IF shifted = 0 THEN v
        ELSE packVarLen(shifted, Shl8Or(v, (shifted % 128) + 128))

\* while (true) { buffer.push(v & 0xFF); if (v & 0x80) v >>= 8; else break; }
RECURSIVE unpackVarLen(_)
unpackVarLen(v) ==
    IF v[1] >= 128 THEN <<v[1]>> \o unpackVarLen(Sar8(v)) ELSE <<v[1]>>

\* writeVarLen keeping only the lowest 7-bit group
writeVarLenOneByte(val) == <<val % 128>>

\* Called with val >= 0 only: for val < 0 the first loop never ends (val >>= 7
\* stays -1), which encodeMidi below reports as Hang.
writeVarLen(val) == unpackVarLen(packVarLen(val, Word32(val % 128)))

MThdHeader == <<77, 84, 104, 100,  0, 0, 0, 6,  0, 0,  0, 1,  1, 224>>
MTrkTag == <<77, 84, 114, 107>>
EndOfTrack == <<0, 255, 47, 0>>

\* The length placeholder of the track chunk, never back-patched
lengthPlaceholder(x) == <<0, 0, 0, 0>>

\* The four bytes of a 32-bit length, highest first (track[4..7]).
UInt32BE(x) ==
    << (x \div 16777216) % 256, (x \div 65536) % 256, (x \div 256) % 256, x % 256 >>

\* Math.ceil: the least integer not below x
Ceil(x) == -Floor(Neg(x))

\* The delta rounded up to the next whole tick instead of to the nearest
deltaOfRoundedUp(ev, lastTime) ==
    Ceil(Sub(Mul(ev.time, ticksPerMs), Double(lastTime)))

\* const delta = Math.round(ev.time * 0.48 - lastTime)
deltaOf(ev, lastTime) ==
    MathRound(Sub(Mul(ev.time, ticksPerMs), Double(lastTime)))

\* The velocity byte without the lower clamp at 1
velocityByteUnclamped(ev) == MathRound(Mul(ev.velocity, Double(127))) % 256

\* Math.max(1, Math.round(ev.velocity * 127)), stored in a Uint8Array (mod 256)
velocityByte(ev) == Max(1, MathRound(Mul(ev.velocity, Double(127)))) % 256

eventBytes(ev) ==
    IF ev.type = "on" THEN <<144, ev.note % 256, velocityByte(ev)>>
    ELSE <<128, ev.note % 256, 0>>

\* The deltas of the for loop, in order (lastTime += delta after each).
RECURSIVE deltasFrom(_, _, _)
deltasFrom(events, i, lastTime) ==
    IF i > Len(events) THEN <<>>
    ELSE LET delta == deltaOf(events[i], lastTime)
         IN  <<delta>> \o deltasFrom(events, i + 1, lastTime + delta)

RECURSIVE trackBody(_, _, _)
trackBody(events, deltas, i) ==
    IF i > Len(events) THEN EndOfTrack
    ELSE writeVarLen(deltas[i]) \o eventBytes(events[i]) \o trackBody(events, deltas, i + 1)

Hang == <<-1>>

\* The bytes encodeMidi returns, or Hang when writeVarLen is handed a negative
\* delta and loops for ever.
\* encodeMidi without the closing end-of-track event
encodeMidiNoEndOfTrack(events) ==
    LET deltas == deltasFrom(events, 1, 0)
    IN  IF \E i \in 1..Len(deltas) : deltas[i] < 0 THEN Hang
        ELSE LET body == trackBody(events, deltas, 1)
                 kept == SubSeq(body, 1, Len(body) - Len(EndOfTrack))
             IN  MThdHeader \o MTrkTag \o UInt32BE(Len(kept)) \o kept

encodeMidi(events) ==
    LET deltas == deltasFrom(events, 1, 0)
    IN  IF \E i \in 1..Len(deltas) : deltas[i] < 0 THEN Hang
        ELSE LET body == trackBody(events, deltas, 1)
             IN  MThdHeader \o MTrkTag \o UInt32BE(Len(body)) \o body

-----------------------------------------------------------------------------
(* App.tsx: decodeMidiToEvents and getRecordingEvents                      *)
(*                                                                         *)
(* Offsets are 0-based as in the DataView; bytes[offset + 1] is the byte   *)
(* at offset.  A DataView read outside the buffer throws a RangeError,     *)
(* which the decoder does not catch: Thrown stands for that outcome.       *)

Thrown == [thrown |-> TRUE]

Result(events, hasTempoMeta, microsecondsPerQuarter) ==
    [thrown |-> FALSE, events |-> events, hasTempoMeta |-> hasTempoMeta,
     microsecondsPerQuarter |-> microsecondsPerQuarter]

EmptyResult == Result(<<>>, FALSE, MICROSECONDS_PER_QUARTER)

InBuffer(bytes, offset, n) == offset >= 0 /\ offset + n <= Len(bytes)

getUint8(bytes, offset) == bytes[offset + 1]

getUint32(bytes, offset) ==
    <<bytes[offset + 1], bytes[offset + 2], bytes[offset + 3], bytes[offset + 4]>>

\* (acc << 7) | (byte & 0x7F) on 32-bit integers: the low 25 bits of acc move
\* up, bit 24 becoming the sign.
Shl7Or(acc, low7) ==
    LET low24 == acc % 16777216
        bit24 == (acc \div 16777216) % 2
    IN  IF bit24 = 0 THEN low24 * 128 + low7
        ELSE (low24 * 128 + low7 - 2147483647) - 1

\* do { byte = getUint8(offset++); value = (value << 7) | (byte & 0x7F); }
\* while (byte & 0x80)
RECURSIVE readVarLen(_, _, _)
readVarLen(bytes, offset, acc) ==
    IF ~InBuffer(bytes, offset, 1) THEN [ok |-> FALSE, value |-> 0, next |-> offset]
    ELSE LET byte == getUint8(bytes, offset)
             value == Shl7Or(acc, byte % 128)
         IN  IF byte >= 128 THEN readVarLen(bytes, offset + 1, value)
             ELSE [ok |-> TRUE, value |-> value, next |-> offset + 1]

\* events.sort((a, b) => a.time - b.time): a stable sort, so an event goes
\* after every event already placed whose time is not greater.
RECURSIVE insertByTime(_, _)
insertByTime(sorted, e) ==
    IF sorted = <<>> THEN <<e>>
    ELSE LET last == sorted[Len(sorted)]
         IN  IF LE(last.time, e.time) THEN Append(sorted, e)
             ELSE Append(insertByTime(SubSeq(sorted, 1, Len(sorted) - 1), e), last)

\* The events in file order, left unsorted
fileOrder(events) == events

RECURSIVE sortByTime(_)
sortByTime(events) ==
    IF events = <<>> THEN <<>>
    ELSE insertByTime(sortByTime(SubSeq(events, 1, Len(events) - 1)),
                      events[Len(events)])

\* The inner while (offset < trackEnd) loop.
RECURSIVE decodeTrack(_, _, _, _, _, _, _)
decodeTrack(bytes, offset, trackEnd, absoluteTime, microsecondsPerQuarter, hasTempoMeta, events) ==
    IF ~(offset < trackEnd)
    THEN Result(sortByTime(events), hasTempoMeta, microsecondsPerQuarter)
    ELSE
    LET delta == readVarLen(bytes, offset, 0)
        absTime == absoluteTime + delta.value
        typeAt == delta.next
    IN
    IF ~delta.ok \/ ~InBuffer(bytes, typeAt, 1) THEN Thrown
    ELSE
    LET eventType == getUint8(bytes, typeAt)
        at == typeAt + 1
    IN
    IF eventType = 255 THEN
        IF ~InBuffer(bytes, at, 1) THEN Thrown
        ELSE
        LET metaType == getUint8(bytes, at)
            metaLength == readVarLen(bytes, at + 1, 0)
            metaStart == metaLength.next
        IN
        IF ~metaLength.ok THEN Thrown
        ELSE IF metaType = 81 /\ metaLength.value = 3 THEN
            IF ~InBuffer(bytes, metaStart, 3) THEN Thrown
            ELSE decodeTrack(bytes, metaStart + 3, trackEnd, absTime,
                     getUint8(bytes, metaStart) * 65536
                       + getUint8(bytes, metaStart + 1) * 256
                       + getUint8(bytes, metaStart + 2),
                     TRUE, events)
        ELSE decodeTrack(bytes, metaStart + metaLength.value, trackEnd, absTime,
                 microsecondsPerQuarter, hasTempoMeta, events)
    ELSE IF eventType \div 16 = 9 THEN
        IF ~InBuffer(bytes, at, 2) THEN Thrown
        ELSE
        LET note == getUint8(bytes, at)
            velocity == getUint8(bytes, at + 1)
            time == ticksToMs(absTime, microsecondsPerQuarter)
        IN  decodeTrack(bytes, at + 2, trackEnd, absTime, microsecondsPerQuarter,
                hasTempoMeta,
                Append(events,
                    IF velocity > 0
                    THEN Ev("on", note, Div(Double(velocity), Double(127)), time)
                    ELSE Ev("off", note, Zero, time)))
    ELSE IF eventType \div 16 = 8 THEN
        IF ~InBuffer(bytes, at, 2) THEN Thrown
        ELSE decodeTrack(bytes, at + 2, trackEnd, absTime, microsecondsPerQuarter,
                 hasTempoMeta,
                 Append(events,
                     Ev("off", getUint8(bytes, at), Zero,
                        ticksToMs(absTime, microsecondsPerQuarter))))
    ELSE \* Other event, skip: offset++
        decodeTrack(bytes, at + 1, trackEnd, absTime, microsecondsPerQuarter,
            hasTempoMeta, events)

\* The outer while (offset < byteLength) loop: find the first 'MTrk'.
RECURSIVE findTrack(_, _)
findTrack(bytes, offset) ==
    IF ~(offset < Len(bytes)) THEN EmptyResult
    ELSE IF ~InBuffer(bytes, offset, 4) THEN Thrown
    ELSE IF getUint32(bytes, offset) = MTrkTag THEN
        IF ~InBuffer(bytes, offset + 4, 4) THEN Thrown
        ELSE
        LET len == getUint32(bytes, offset + 4)
            trackLength == len[1] * 16777216 + len[2] * 65536 + len[3] * 256 + len[4]
        IN  decodeTrack(bytes, offset + 8, offset + 8 + trackLength, 0,
                MICROSECONDS_PER_QUARTER, FALSE, <<>>)
    ELSE findTrack(bytes, offset + 1)

decodeMidiToEvents(bytes) ==
    IF ~InBuffer(bytes, 0, 4) THEN Thrown
    ELSE findTrack(bytes, IF getUint32(bytes, 0) = SubSeq(MThdHeader, 1, 4) THEN 14 ELSE 0)

\* try { ...; return decodeMidiToEvents(arrayBuffer) } catch { return empty }.
\* fetched is FALSE when the row or the MIDI url is missing or the fetch rejects.
getRecordingEvents(fetched, bytes) ==
    IF ~fetched THEN EmptyResult
    ELSE LET r == decodeMidiToEvents(bytes)
         IN  IF r.thrown THEN EmptyResult ELSE r

-----------------------------------------------------------------------------
(* Inputs of the codec: recordings to encode, and hand-constructed files.  *)

MaxEvents == 2
MaxItems == 2

Notes == {60, 61}

\* 1 ms is less than a tick; 267 ms is 128 ticks (a two-byte delta);
\* 34134 ms is 16384 ticks (a three-byte delta).
TimeValues == {0, 1, 267, 34134}
\* 0, 0.001, 0.5 and 1
VelocityValues ==
    {Zero, Div(Double(1), Double(1000)), Div(Double(1), Double(2)), Double(1)}

EventChoices ==
    {Ev("on", n, v, Double(t)) : n \in Notes, v \in VelocityValues, t \in TimeValues}
    \cup {Ev("off", n, Zero, Double(t)) : n \in Notes, t \in TimeValues}

EventLists == UNION {[1..k -> EventChoices] : k \in 0..MaxEvents}

\* One event of a hand-constructed track: a delta and what follows it.
Item(kind, delta, data) == [kind |-> kind, delta |-> delta, data |-> data]

ItemChoices ==
    { Item("on", 0, <<144, 60, 64>>),
      Item("on", 96, <<144, 61, 127>>),
      Item("off", 96, <<128, 60, 0>>),
      Item("off", 0, <<144, 61, 0>>),
      Item("tempo", 0, <<255, 81, 3, 7, 161, 32>>),       \* 500000
      Item("tempo", 96, <<255, 81, 3, 30, 132, 128>>),    \* 2000000
      Item("text", 0, <<255, 1, 2, 104, 105>>),           \* FF 01 len 2 "hi"
      Item("cc", 0, <<176, 7, 100>>) }                    \* control change

\* A note at tick 96 under the default tempo (200 ms), then a faster tempo,
\* then one more event: a note at the same tick now converts to 100 ms.
SpedUpLists ==
    { << Item("on", 96, <<144, 61, 127>>),
         Item("tempo", 0, <<255, 81, 3, 7, 161, 32>>),
         last >> : last \in ItemChoices }

ItemLists == UNION {[1..k -> ItemChoices] : k \in 0..MaxItems} \cup SpedUpLists

RECURSIVE itemBytes(_, _)
itemBytes(items, i) ==
    IF i > Len(items) THEN <<>>
    ELSE writeVarLen(items[i].delta) \o items[i].data \o itemBytes(items, i + 1)

\* The whole file a shape describes, before it is cut short.
FullStream(s) ==
    LET body == itemBytes(s.items, 1) \o (IF s.eot THEN EndOfTrack ELSE <<>>)
    IN  (IF s.header THEN MThdHeader ELSE <<>>)
        \o MTrkTag \o UInt32BE(Len(body) + s.extra) \o body

\* The file as stored: the last s.cut bytes are missing.
BuildStream(s) == SubSeq(FullStream(s), 1, Len(FullStream(s)) - s.cut)

LongestStream == 14 + 8 + 7 * MaxItems + 4

Shapes ==
    {s \in [items : ItemLists, header : BOOLEAN, eot : BOOLEAN,
            extra : {0, 4}, cut : 0..LongestStream] :
        s.cut <= Len(FullStream(s))}

NoShape == [items |-> <<>>, header |-> FALSE, eot |-> FALSE, extra |-> 0, cut |-> -1]
NoResult == [thrown |-> FALSE, events |-> <<>>, hasTempoMeta |-> FALSE,
             microsecondsPerQuarter |-> 0]

-----------------------------------------------------------------------------
(* components/Piano.tsx: the key animation driver                          *)
(*                                                                         *)
(* progress is a double in [0, 1]; target is 0 or 1.                       *)

\* null and undefined: a value that is no note, no handle and no duration
Null == -1

\* A JavaScript Set keeps insertion order (forEach visits in that order).
Has(set, x) == \E i \in 1..Len(set) : set[i] = x
SetAdd(set, x) == IF Has(set, x) THEN set ELSE Append(set, x)
SetDelete(set, x) == SelectSeq(set, LAMBDA y : y # x)
Members(set) == {set[i] : i \in 1..Len(set)}

\* const diff = anim.target - anim.progress
diffOf(anim) == Sub(Double(anim.target), anim.progress)

\* Math.abs(diff) > 0.01
isMoving(anim) == GT(MathAbs(diffOf(anim)), epsilon)

\* stepKey moving a tenth of the way per tick
stepKeyTenth(anim) ==
    IF isMoving(anim)
    THEN [anim EXCEPT !.progress = Add(anim.progress,
                                       Mul(diffOf(anim), tenth)),
                      !.ticks = @ + 1]
    ELSE [anim EXCEPT !.progress = Double(anim.target),
                      !.ticks = IF anim.progress = Double(anim.target) THEN @ ELSE @ + 1]

\* stepKey leaving a key that is within 0.01 of its target where it is
stepKeyNoSnap(anim) ==
    IF isMoving(anim)
    THEN [anim EXCEPT !.progress = Add(anim.progress,
                                       Mul(diffOf(anim), easing)),
                      !.ticks = @ + 1]
    ELSE anim

\* if (Math.abs(diff) > 0.01) anim.progress += diff * 0.15
\* else anim.progress = anim.target
\* (ticks is history: the animate() runs since the target last changed.)
stepKey(anim) ==
    IF isMoving(anim)
    THEN [anim EXCEPT !.progress = Add(anim.progress,
                                       Mul(diffOf(anim), easing)),
                      !.ticks = @ + 1]
    ELSE [anim EXCEPT !.progress = Double(anim.target),
                      !.ticks = IF anim.progress = Double(anim.target) THEN @ ELSE @ + 1]

\* One run of animate(): every key steps; a frame is requested again iff some
\* key moved (needsUpdate).
animate(anims) ==
    [anims |-> [k \in DOMAIN anims |-> stepKey(anims[k])],
     id |-> \E k \in DOMAIN anims : isMoving(anims[k])]

\* animate() on the driver state K = [anims, id, frames]: frames counts the
\* callbacks handed to requestAnimationFrame and not yet called
runAnimate(K) ==
    Let(<<animate(K.anims), K.frames>>, LAMBDA p :
        [anims |-> p[1].anims, id |-> p[1].id,
         frames |-> IF p[1].id THEN p[2] + 1 ELSE p[2]])

\* keyAnimationsRef.current.set(note, { progress: 0, target: 0 }); from and
\* ticks are history: the progress when the target last changed, and the
\* animate() runs since then.
NewKey == [progress |-> Zero, target |-> 0, from |-> Zero, ticks |-> 0]

\* animateKey setting the target and leaving the driver as it is
animateKeyTargetOnly(K, note, isPressed) ==
    LET created == IF note \in DOMAIN K.anims THEN K.anims
                   ELSE [k \in DOMAIN K.anims \cup {note} |->
                            IF k = note THEN NewKey ELSE K.anims[k]]
        target == IF isPressed THEN 1 ELSE 0
        anim == created[note]
    IN  [K EXCEPT !.anims = [created EXCEPT ![note] =
                                IF anim.target = target THEN anim
                                ELSE [anim EXCEPT !.target = target,
                                                  !.from = anim.progress,
                                                  !.ticks = 0]]]

\* animateKey running animate() whether or not a frame is requested
animateKeyAlways(K, note, isPressed) ==
    LET created == IF note \in DOMAIN K.anims THEN K.anims
                   ELSE [k \in DOMAIN K.anims \cup {note} |->
                            IF k = note THEN NewKey ELSE K.anims[k]]
        target == IF isPressed THEN 1 ELSE 0
        anim == created[note]
        targeted == [created EXCEPT ![note] =
                        IF anim.target = target THEN anim
                        ELSE [anim EXCEPT !.target = target,
                                          !.from = anim.progress, !.ticks = 0]]
    IN  runAnimate([K EXCEPT !.anims = targeted])

\* animateKey(note, isPressed) on the driver state K: create the
\* entry, set its target, and run animate() at once when no frame is requested.
animateKey(K, note, isPressed) ==
    LET created == IF note \in DOMAIN K.anims THEN K.anims
                   ELSE [k \in DOMAIN K.anims \cup {note} |->
                            IF k = note THEN NewKey ELSE K.anims[k]]
        target == IF isPressed THEN 1 ELSE 0
        anim == created[note]
        targeted == [created EXCEPT ![note] =
                        IF anim.target = target THEN anim
                        ELSE [anim EXCEPT !.target = target,
                                          !.from = anim.progress, !.ticks = 0]]
    IN  IF ~K.id THEN runAnimate([K EXCEPT !.anims = targeted])
        ELSE [K EXCEPT !.anims = targeted]

\* notes.forEach(note => animateKey(note, isPressed)), in the order given
RECURSIVE animateKeys(_, _, _)
animateKeys(K, notes, isPressed) ==
    IF notes = <<>> THEN K
    ELSE animateKeys(animateKey(K, Head(notes), isPressed), Tail(notes), isPressed)

Driver == [anims |-> keyAnimations, id |-> animationId, frames |-> animationFrames]

SetDriver(K) ==
    \E D \in {K} :
       /\ keyAnimations' = D.anims
       /\ animationId' = D.id
       /\ animationFrames' = D.frames

\* The requestAnimationFrame callback of the animation driver.
AnimationFrame ==
    /\ animationFrames > 0
    /\ framesLeft # 0
    /\ framesLeft' = IF framesLeft > 0 THEN framesLeft - 1 ELSE framesLeft
    /\ SetDriver(runAnimate([Driver EXCEPT !.frames = @ - 1]))
    /\ calls' = <<>>
    /\ UNCHANGED <<activeNotes, pointerDown, pointerNote, isSoundOn, agentTimers, agentNotes,
                   lastIntent, opsLeft, codecVars, playbackVars>>

\* drawAnimatedLayers with the test of the pressed set left out of isPlayback
drawnStyleGhostFirst(anims, ghost, pressed, i) ==
    LET isActive == i \in DOMAIN anims /\ GT(anims[i].progress, Zero)
    IN  IF isActive /\ GT(anims[i].progress, halfway)
        THEN (IF Has(ghost, i) THEN "ghost" ELSE "pressed")
        ELSE "rest"

\* The palette drawAnimatedLayers and drawKey3D give key i: isPressed is
\* anim.progress > 0.5, isPlayback is playbackNotesRef.has(i) &&
\* !activeNotesRef.has(i); a key drawn pressed takes the gray palette when
\* isPlayback and the environment's pressed palette otherwise, and a key not
\* drawn pressed (or not animated at all) shows its resting palette.
drawnStyle(anims, ghost, pressed, i) ==
    LET isActive == i \in DOMAIN anims /\ GT(anims[i].progress, Zero)
        isPressed == isActive /\ GT(anims[i].progress, halfway)
        isPlayback == isActive /\ Has(ghost, i) /\ ~Has(pressed, i)
    IN  IF isPressed THEN (IF isPlayback THEN "ghost" ELSE "pressed") ELSE "rest"

-----------------------------------------------------------------------------
(* components/Piano.tsx: hardware MIDI, pointer and tool input             *)

Call(fn, note, velocity) == [fn |-> fn, note |-> note, velocity |-> velocity]
\* A note intent as an input source reports it (history).  channel is the
\* MIDI channel 1..16, or 0 for the pointer and the agent.
Intent(source, kind, note, channel) ==
    [source |-> source, kind |-> kind, note |-> note, channel |-> channel]
NoIntent == Intent("none", "none", 0, 0)

\* What a hardware message reports, by its status nibble on any channel.
midiIntent(data) ==
    IF Len(data) < 3 THEN NoIntent
    ELSE IF data[1] \div 16 = 9 /\ data[3] > 0
         THEN Intent("midi", "on", data[2], (data[1] % 16) + 1)
    ELSE IF data[1] \div 16 = 8 \/ (data[1] \div 16 = 9 /\ data[3] = 0)
         THEN Intent("midi", "off", data[2], (data[1] % 16) + 1)
    ELSE NoIntent

Plays(made) == Cardinality({i \in 1..Len(made) : made[i].fn = "playNote"})

\* lastIntent: the intent reported last, with how many times in a row it has
\* been reported (run, counted up to 3), the playNote calls made over that
\* run, and whether the note was out of the pressed set when the run began.
NoHistory ==
    [intent |-> NoIntent, run |-> 0, plays |-> 0, fresh |-> FALSE]

Report(intent) ==
    lastIntent' =
        IF intent = NoIntent THEN lastIntent
        ELSE IF intent = lastIntent.intent
        THEN [lastIntent EXCEPT !.run = IF @ < 3 THEN @ + 1 ELSE @,
                                !.plays = @ + Plays(calls')]
        ELSE [intent |-> intent, run |-> 1, plays |-> Plays(calls'),
              fresh |-> ~Has(activeNotes, intent.note)]

handleMIDIMessage(data) ==
    /\ UNCHANGED <<pointerDown, pointerNote, isSoundOn, agentTimers, agentNotes>>
    /\ IF Len(data) < 3
       THEN /\ calls' = <<>>
            /\ UNCHANGED <<activeNotes, keyAnimations, animationId,
                           animationFrames>>
       ELSE LET command == data[1]
                note == data[2]
                velocity == data[3]
                isNoteOn == command = 144 /\ velocity > 0
                isNoteOff == command = 128 \/ (command = 144 /\ velocity = 0)
            IN  IF isNoteOn
                THEN /\ activeNotes' = SetAdd(activeNotes, note)
                     /\ SetDriver(animateKey(Driver, note, TRUE))
                     /\ calls' = <<Call("playNote", note, velocity),
                                   Call("onNoteOn", note, velocity)>>
                ELSE IF isNoteOff
                THEN /\ activeNotes' = SetDelete(activeNotes, note)
                     /\ SetDriver(animateKey(Driver, note, FALSE))
                     /\ calls' = <<Call("stopNote", note, 0),
                                   Call("onNoteOff", note, 0)>>
                ELSE /\ calls' = <<>>
                     /\ UNCHANGED <<activeNotes, keyAnimations, animationId,
                           animationFrames>>
    /\ Report(midiIntent(data))

\* note is what getNoteFromCoords resolved: a note or Null.
handlePointerDown(note) ==
    /\ pointerDown' = TRUE
    /\ UNCHANGED <<isSoundOn, agentTimers, agentNotes>>
    /\ IF note # Null
       THEN /\ pointerNote' = note
            /\ IF ~Has(activeNotes, note)
               THEN /\ activeNotes' = SetAdd(activeNotes, note)
                    /\ SetDriver(animateKey(Driver, note, TRUE))
                    /\ calls' = IF isSoundOn
                                THEN <<Call("playNote", note, 100),
                                       Call("onNoteOn", note, 100)>>
                                ELSE <<>>
               ELSE /\ calls' = <<>>
                    /\ UNCHANGED <<activeNotes, keyAnimations, animationId,
                           animationFrames>>
       ELSE /\ calls' = <<>>
            /\ UNCHANGED <<pointerNote, activeNotes, keyAnimations, animationId,
                           animationFrames>>
    /\ Report(IF note = Null THEN NoIntent ELSE Intent("pointer", "on", note, 0))

\* the calls of a move with the new note's first
moveCallsOnFirst(callsOff, callsOn) == callsOn \o callsOff

\* the calls of handlePointerMove in the order it makes them: the block for
\* the old note comes before the block for the new one
moveCalls(callsOff, callsOn) == callsOff \o callsOn

handlePointerMove(note) ==
    /\ UNCHANGED <<pointerDown, isSoundOn, agentTimers, agentNotes>>
    /\ IF ~pointerDown \/ note = pointerNote
       THEN /\ calls' = <<>>
            /\ UNCHANGED <<pointerNote, activeNotes, keyAnimations, animationId,
                           animationFrames, lastIntent>>
       ELSE LET released == pointerNote # Null
                notesOff == IF released THEN SetDelete(activeNotes, pointerNote)
                            ELSE activeNotes
                driverOff == IF released THEN animateKey(Driver, pointerNote, FALSE)
                             ELSE Driver
                callsOff == IF released
                            THEN (IF isSoundOn THEN <<Call("stopNote", pointerNote, 0)>>
                                  ELSE <<>>)
                                 \o <<Call("onNoteOff", pointerNote, 0)>>
                            ELSE <<>>
                pressed == note # Null /\ ~Has(notesOff, note)
            IN  /\ pointerNote' = note
                /\ activeNotes' = IF pressed THEN SetAdd(notesOff, note) ELSE notesOff
                /\ SetDriver(IF pressed THEN animateKey(driverOff, note, TRUE)
                             ELSE driverOff)
                /\ calls' = moveCalls(callsOff,
                      (IF pressed
                       THEN (IF isSoundOn THEN <<Call("playNote", note, 100)>> ELSE <<>>)
                            \o <<Call("onNoteOn", note, 100)>>
                       ELSE <<>>))
                /\ Report(IF note # Null THEN Intent("pointer", "on", note, 0)
                          ELSE Intent("pointer", "off", pointerNote, 0))

handlePointerUp ==
    /\ pointerDown' = FALSE
    /\ UNCHANGED <<isSoundOn, agentTimers, agentNotes>>
    /\ IF pointerNote # Null
       THEN /\ activeNotes' = SetDelete(activeNotes, pointerNote)
            /\ SetDriver(animateKey(Driver, pointerNote, FALSE))
            /\ calls' = (IF isSoundOn THEN <<Call("stopNote", pointerNote, 0)>> ELSE <<>>)
                        \o <<Call("onNoteOff", pointerNote, 0)>>
            /\ pointerNote' = Null
            /\ Report(Intent("pointer", "off", pointerNote, 0))
       ELSE /\ calls' = <<>>
            /\ UNCHANGED <<pointerNote, activeNotes, keyAnimations, animationId,
                           animationFrames, lastIntent>>

\* window.animatePianoKey(note, isPressed)
animatePianoKey(notes, K, note, isPressed) ==
    [notes |-> IF isPressed THEN SetAdd(notes, note) ELSE SetDelete(notes, note),
     K |-> animateKey(K, note, isPressed)]

\* window.stopAllPianoAnimations(): animateKey(note, false) for each note of
\* the pressed set, in insertion order (the caller then sees the set cleared)
RECURSIVE stopAllPianoAnimations(_, _)
stopAllPianoAnimations(notes, K) ==
    IF notes = <<>> THEN K
    ELSE stopAllPianoAnimations(Tail(notes), animateKey(K, Head(notes), FALSE))

\* A pending setTimeout of a tool.  A release timer carries the midiNotes its
\* callback stops.  The press timers one play_sequence call sets fire in the
\* order of the steps (each is due later than the one before), so they are
\* kept as one entry holding the steps that have not fired, first due first.
Timer(notes, steps) == [notes |-> notes, steps |-> steps]
Step(notes, velocity) == [notes |-> notes, velocity |-> velocity]

\* What a tool callback works on: the pressed set and the driver of Piano.tsx,
\* the tool's own activeNotesRef, and the calls to pianoControls it makes.
Agent == [pressed |-> activeNotes, K |-> Driver, notes |-> agentNotes, made |-> <<>>]

SetAgent(A) ==
    /\ activeNotes' = A.pressed
    /\ SetDriver(A.K)
    /\ agentNotes' = A.notes
    /\ calls' = A.made

\* midiNotes.forEach: playNote, activeNotesRef.add, window.animatePianoKey(true)
RECURSIVE pressEach(_, _, _)
pressEach(A, midiNotes, velocity) ==
    IF midiNotes = <<>> THEN A
    ELSE LET note == Head(midiNotes)
             r == animatePianoKey(A.pressed, A.K, note, TRUE)
         IN  pressEach([pressed |-> r.notes, K |-> r.K,
                        notes |-> SetAdd(A.notes, note),
                        made |-> Append(A.made, Call("playNote", note, velocity))],
                       Tail(midiNotes), velocity)

\* midiNotes.forEach: stopNote, activeNotesRef.delete, window.animatePianoKey(false)
RECURSIVE releaseEach(_, _)
releaseEach(A, midiNotes) ==
    IF midiNotes = <<>> THEN A
    ELSE LET note == Head(midiNotes)
             r == animatePianoKey(A.pressed, A.K, note, FALSE)
         IN  releaseEach([pressed |-> r.notes, K |-> r.K,
                          notes |-> SetDelete(A.notes, note),
                          made |-> Append(A.made, Call("stopNote", note, 0))],
                         Tail(midiNotes))

\* The intent a tool step reports: that of the last note it handles.
agentIntent(kind, midiNotes) ==
    IF midiNotes = <<>> THEN NoIntent
    ELSE Intent("agent", kind, midiNotes[Len(midiNotes)], 0)

\* hooks/useAgent.ts playNoteTool.execute, after initializeAudio resolved
playNoteTool(note, velocity) ==
    /\ SetAgent(pressEach(Agent, <<note>>, velocity))
    /\ agentTimers' = agentTimers (+) SetToBag({Timer(<<note>>, <<>>)})
    /\ Report(Intent("agent", "on", note, 0))
    /\ UNCHANGED <<pointerDown, pointerNote, isSoundOn>>

\* playChordTool.execute, after initializeAudio resolved: every note pressed,
\* one timer set for them all
playChordTool(midiNotes, velocity) ==
    /\ SetAgent(pressEach(Agent, midiNotes, velocity))
    /\ agentTimers' = agentTimers (+) SetToBag({Timer(midiNotes, <<>>)})
    /\ Report(agentIntent("on", midiNotes))
    /\ UNCHANGED <<pointerDown, pointerNote, isSoundOn>>

\* playSequenceTool.execute, after initializeAudio resolved: one press timer
\* per step and nothing else
playSequenceTool(sequence) ==
    /\ agentTimers' = IF sequence = <<>> THEN agentTimers
                      ELSE agentTimers (+) SetToBag({Timer(<<>>, sequence)})
    /\ calls' = <<>>
    /\ UNCHANGED <<activeNotes, keyAnimations, animationId, animationFrames,
                   agentNotes, lastIntent, pointerDown, pointerNote, isSoundOn>>

\* A setTimeout callback of a tool.  The release timer of play_note, of
\* play_chord or of a step stops its notes; the press timer of the first step
\* not yet played presses that step's notes and sets their release timer.
agentTimeout(timer) ==
    /\ BagIn(timer, agentTimers)
    /\ UNCHANGED <<pointerDown, pointerNote, isSoundOn>>
    /\ IF timer.steps = <<>>
       THEN /\ SetAgent(releaseEach(Agent, timer.notes))
            /\ agentTimers' = agentTimers (-) SetToBag({timer})
            /\ Report(agentIntent("off", timer.notes))
       ELSE LET step == Head(timer.steps)
                rest == Tail(timer.steps)
            IN  /\ SetAgent(pressEach(Agent, step.notes, step.velocity))
                /\ agentTimers' =
                      ((agentTimers (-) SetToBag({timer}))
                          (+) SetToBag({Timer(step.notes, <<>>)}))
                          (+) (IF rest = <<>> THEN EmptyBag
                               ELSE SetToBag({Timer(<<>>, rest)}))
                /\ Report(agentIntent("on", step.notes))

\* stopAllNotesTool.execute, and stopSession while a session is open:
\* stopNote for each note the tools hold, their set cleared, then
\* window.stopAllPianoAnimations(), which clears the whole pressed set.  The
\* timers of the tools stay pending.
stopAllNotesTool ==
    /\ calls' = [i \in 1..Len(agentNotes) |-> Call("stopNote", agentNotes[i], 0)]
    /\ agentNotes' = <<>>
    /\ SetDriver(stopAllPianoAnimations(activeNotes, Driver))
    /\ activeNotes' = <<>>
    /\ Report(agentIntent("off", agentNotes))
    /\ UNCHANGED <<agentTimers, pointerDown, pointerNote, isSoundOn>>

-----------------------------------------------------------------------------
(* components/Piano.tsx: synchronized playback                             *)
(*                                                                         *)
(* A session is one call of window.startSynchronizedPlayback, named by its *)
(* requestId.  A session has at most one frame callback requested at a     *)
(* time, so a requestAnimationFrame handle is named by its session.        *)
(* Callbacks run in the order they were requested.                         *)

leadMs == 75
toleranceMs == 25

\* The refs the engine works on, as one value.
Engine ==
    [events |-> playbackEvents, index |-> playbackEventIndex,
     lastTime |-> playbackLastTime, raf |-> playbackRaf, pending |-> rafPending,
     ghost |-> playbackNotes, K |-> Driver, pressed |-> activeNotes, made |-> <<>>]

SetEngine(E) ==
    \E F \in {E} :
       /\ playbackEvents' = F.events
       /\ playbackEventIndex' = F.index
       /\ playbackLastTime' = F.lastTime
       /\ playbackRaf' = F.raf
       /\ rafPending' = F.pending
       /\ playbackNotes' = F.ghost
       /\ SetDriver(F.K)
       /\ activeNotes' = F.pressed
       /\ calls' = F.made

\* playbackNotesRef.current.forEach(note => { if (!activeNotesRef.current
\* .has(note)) animateKey(note, false) }); playbackNotesRef.current.clear()
releaseGhosts(E, pressed) ==
    [E EXCEPT !.K = animateKeys(E.K, SelectSeq(E.ghost, LAMBDA n : ~Has(pressed, n)),
                                FALSE),
              !.ghost = <<>>]

clearPlaybackVisualization(E, pressed) ==
    LET cancelled == [E EXCEPT !.pending = IF E.raf # Null THEN SetDelete(@, E.raf)
                                           ELSE @,
                               !.raf = Null]
        emptied == [cancelled EXCEPT !.events = <<>>, !.index = 0, !.lastTime = 0]
    IN  releaseGhosts(emptied, pressed)

\* readDuration(): duration * 1000, or undefined while the duration is unknown
readDuration(element) == IF element.duration > 0 THEN element.duration ELSE Null

\* Math.abs(audioDurationMs / lastEventTime - 1) > 0.05
exceedsThreshold(audioDurationMs, lastEventTime) ==
    GT(MathAbs(Sub(Div(Double(audioDurationMs), lastEventTime), Double(1))),
       driftTolerance)

\* needsScaling without the test that the duration is known
needsScalingUnknownDuration(hasTempoMeta, audioDurationMs, lastEventTime) ==
    /\ ~hasTempoMeta
    /\ GT(lastEventTime, Zero)
    /\ exceedsThreshold(audioDurationMs, lastEventTime)

needsScaling(hasTempoMeta, audioDurationMs, lastEventTime) ==
    /\ ~hasTempoMeta
    /\ audioDurationMs # Null
    /\ GT(lastEventTime, Zero)
    /\ exceedsThreshold(audioDurationMs, lastEventTime)

\* rawEvents.map(event => ({...event, time: event.time * (audioDurationMs /
\* lastEventTime)}))
scaledEvents(rawEvents, audioDurationMs, lastEventTime) ==
    [i \in 1..Len(rawEvents) |->
        [rawEvents[i] EXCEPT !.time = Mul(@, Div(Double(audioDurationMs), lastEventTime))]]

\* startSynchronizedPlayback from the end of the metadata wait on: load the
\* events and request the first frame.
afterMetadataWait(E, requestId, result, audioDurationMs) ==
    LET rawEvents == result.events
        lastEventTime == IF rawEvents = <<>> THEN Zero
                         ELSE rawEvents[Len(rawEvents)].time
        events == IF needsScaling(result.hasTempoMeta, audioDurationMs, lastEventTime)
                  THEN scaledEvents(rawEvents, audioDurationMs, lastEventTime)
                  ELSE rawEvents
    IN  [E EXCEPT !.events = events, !.index = 0, !.lastTime = 0,
                  !.pending = Append(@, requestId), !.raf = requestId]

\* Math.max(0, event.time - leadMs) <= currentTimeMs + toleranceMs
isDue(time, currentTimeMs) ==
    LET early == Sub(time, Double(leadMs))
        triggerTime == IF LT(early, Zero) THEN Zero ELSE early
    IN  LE(triggerTime, Add(Double(currentTimeMs), Double(toleranceMs)))

\* the while loop of run, were a ghost note played as a hardware note is: the
\* note enters or leaves the pressed set, the sound engine is called and the
\* recorder is told
RECURSIVE fireDueSounding(_, _)
fireDueSounding(E, currentTimeMs) ==
    IF E.index < Len(E.events) /\ isDue(E.events[E.index + 1].time, currentTimeMs)
    THEN LET event == E.events[E.index + 1]
             isOn == event.type = "on"
         IN  fireDueSounding(
                 [E EXCEPT !.ghost = IF isOn THEN SetAdd(@, event.note)
                                     ELSE SetDelete(@, event.note),
                           !.K = animateKey(@, event.note, isOn),
                           !.pressed = IF isOn THEN SetAdd(@, event.note)
                                       ELSE SetDelete(@, event.note),
                           !.made = @ \o IF isOn
                                         THEN <<Call("playNote", event.note, 100),
                                                Call("onNoteOn", event.note, 100)>>
                                         ELSE <<Call("stopNote", event.note, 0),
                                                Call("onNoteOff", event.note, 0)>>,
                           !.index = @ + 1],
                 currentTimeMs)
    ELSE E

\* the while loop of run
RECURSIVE fireDue(_, _)
fireDue(E, currentTimeMs) ==
    IF E.index < Len(E.events) /\ isDue(E.events[E.index + 1].time, currentTimeMs)
    THEN LET event == E.events[E.index + 1]
             isOn == event.type = "on"
         IN  fireDue([E EXCEPT !.ghost = IF isOn THEN SetAdd(@, event.note)
                                         ELSE SetDelete(@, event.note),
                               !.K = animateKey(@, event.note, isOn),
                               !.index = @ + 1],
                     currentTimeMs)
    ELSE E

\* the scrub test without the tolerance
isScrubBackAtOnce(currentTimeMs, lastTime) == currentTimeMs < lastTime

\* currentTimeMs + toleranceMs < playbackLastTimeRef.current
isScrubBack(currentTimeMs, lastTime) == currentTimeMs + toleranceMs < lastTime

\* run of session requestId, called by the browser with the token, the audio
\* element's paused flag and clock, and the pressed set as they are then
run(E, requestId, token, paused, currentTimeMs, pressed) ==
    IF token # requestId THEN E
    ELSE IF paused THEN clearPlaybackVisualization(E, pressed)
    ELSE LET rewound == IF isScrubBack(currentTimeMs, E.lastTime)
                        THEN releaseGhosts([E EXCEPT !.index = 0], pressed)
                        ELSE E
             fired == fireDue([rewound EXCEPT !.lastTime = currentTimeMs],
                              currentTimeMs)
         IN  [fired EXCEPT !.pending = Append(@, requestId), !.raf = requestId]

Session(pc, element, result) == [pc |-> pc, audio |-> element, result |-> result]

\* lastPlayback (history): the engine's last step, and for a step that loaded
\* events what it loaded them from.
NoLoad == [hasTempoMeta |-> FALSE, rawEvents |-> <<>>, audioDurationMs |-> Null]

Load(result, audioDurationMs) ==
    [hasTempoMeta |-> result.hasTempoMeta, rawEvents |-> result.events,
     audioDurationMs |-> audioDurationMs]

DidLoad(op, session, outcome, loaded) ==
    [op |-> op, session |-> session, outcome |-> outcome, loaded |-> loaded]

Did(op, session, outcome) == DidLoad(op, session, outcome, NoLoad)

NothingPlayed ==
    [op |-> "none", session |-> 0, outcome |-> "none", loaded |-> NoLoad]

-----------------------------------------------------------------------------
(* Initial states: what every part holds after construction.               *)

EmptyAnims == [k \in {} |-> NewKey]

PianoIdle ==
    /\ activeNotes = <<>>
    /\ keyAnimations = EmptyAnims
    /\ animationId = FALSE
    /\ animationFrames = 0
    /\ pointerDown = FALSE
    /\ pointerNote = Null
    /\ agentTimers = EmptyBag
    /\ agentNotes = <<>>
    /\ calls = <<>>
    /\ lastIntent = NoHistory

\* Two recordings in the list: the audio element of the first is still
\* loading its metadata, the second has loaded it (11 s).
AudioIds == {1, 2}
LoadedDuration == 11000

PlaybackIdle ==
    /\ playbackNotes = <<>>
    /\ playbackEvents = <<>>
    /\ playbackEventIndex = 0
    /\ playbackRaf = Null
    /\ playbackLastTime = 0
    /\ playbackRequestId = 0
    /\ sessions = <<>>
    /\ waiters = <<>>
    /\ rafPending = <<>>
    /\ audio = [a \in AudioIds |->
                   [paused |-> TRUE, duration |-> IF a = 1 THEN 0 ELSE LoadedDuration]]
    /\ lastPlayback = NothingPlayed

\* No conversion asked for.
NoTiming == [pc |-> "idle", tempo |-> Omitted, ticks |-> 0, ms |-> Zero]

\* currentRecordingRef.current = null
NoRecording == [id |-> 0, startedAt |-> 0, events |-> <<>>]

\* useRecording's state and refs after the first render, audio not initialized
RecorderIdle ==
    /\ isRecording = FALSE
    /\ isRecordingRef = FALSE
    /\ currentRecording = NoRecording
    /\ finalizeTimers = <<>>
    /\ recordings = <<>>
    /\ takes = 0
    /\ isInitialized = FALSE
    /\ pendingNoteOns = <<>>
    /\ storageLoaded = FALSE

CodecIdle ==
    /\ recEvents = <<>>
    /\ midiBytes = <<>>
    /\ handBuilt = NoShape
    /\ decoded = NoResult
    /\ codecPc = "idle"
    /\ timing = NoTiming
    /\ RecorderIdle

-----------------------------------------------------------------------------
(* The codec as a state machine: a recording is encoded and stored, a      *)
(* stored file is fetched and decoded.                                     *)

InitCodec ==
    /\ decoded = NoResult
    /\ timing = NoTiming
    /\ RecorderIdle
    /\ \/ /\ recEvents \in EventLists
          /\ midiBytes = <<>>
          /\ handBuilt = NoShape
          /\ codecPc = "recorded"
       \/ /\ recEvents = <<>>
          /\ handBuilt \in Shapes
          /\ midiBytes = BuildStream(handBuilt)
          /\ codecPc = "stored"
    /\ PianoIdle
    /\ isSoundOn = TRUE
    /\ PlaybackIdle
    /\ opsLeft = 0
    /\ framesLeft = 0

\* stopRecording's checkAudioAndAdd: encodeMidi(currentRecordingRef.current.events)
EncodeRecording ==
    /\ codecPc = "recorded"
    /\ LET bytes == encodeMidi(recEvents)
       IN  IF bytes = Hang
           THEN /\ codecPc' = "hang"
                /\ midiBytes' = midiBytes
           ELSE /\ codecPc' = "stored"
                /\ midiBytes' = bytes
    /\ UNCHANGED <<recEvents, handBuilt, decoded, timing, recorderVars, keyVars, playbackVars,
                   budgetVars>>

\* getRecordingEvents(recordingId) on the stored file
GetRecordingEvents ==
    /\ codecPc = "stored"
    /\ \E fetched \in BOOLEAN :
          /\ decoded' = getRecordingEvents(fetched, midiBytes)
          /\ codecPc' = IF fetched THEN "decoded" ELSE "fetch_failed"
    /\ UNCHANGED <<recEvents, midiBytes, handBuilt, timing, recorderVars, keyVars, playbackVars,
                   budgetVars>>

NextCodec == EncodeRecording \/ GetRecordingEvents

SpecCodec == InitCodec /\ [][NextCodec]_vars

-----------------------------------------------------------------------------
(* The tick and millisecond conversions, there and back.                   *)

MaxTicks == 24

\* tick counts: every small one, a quarter note, and 1000
TickValues == 0..MaxTicks \cup {TICKS_PER_QUARTER, 1000}

\* times in ms: on and off tick boundaries, the double nearest half a tick
\* (25/24 ms at the default tempo), and a tick and a half and seven and a
\* half (3.125 ms and 15.625 ms at the default tempo, both doubles)
MsValues ==
    {Zero, Div(Double(1), Double(7)), Div(Double(1), Double(2)), Double(1),
     Div(Double(25), Double(24)), Div(Double(3), Double(2)), Div(Double(7), Double(3)),
     Div(Double(25), Double(8)), Div(Double(125), Double(8)),
     Double(267), Double(1000), Double(34134)}

\* the tempo argument: omitted, or microseconds per quarter note
TempoValues == {Omitted, 250000, 480000, 500000, 600000, 1000000, 2000000}

InitTiming ==
    /\ recEvents = <<>>
    /\ midiBytes = <<>>
    /\ handBuilt = NoShape
    /\ decoded = NoResult
    /\ codecPc = "idle"
    /\ RecorderIdle
    /\ \E tempo \in TempoValues :
          \/ \E ticks \in TickValues :
                timing = [pc |-> "ticks", tempo |-> tempo, ticks |-> ticks,
                          ms |-> Zero]
          \/ \E ms \in MsValues :
                timing = [pc |-> "ms", tempo |-> tempo, ticks |-> 0, ms |-> ms]
    /\ PianoIdle
    /\ isSoundOn = TRUE
    /\ PlaybackIdle
    /\ opsLeft = 0
    /\ framesLeft = 0

\* msToTicks(ticksToMs(ticks, tempo), tempo), the tempo given or omitted
TicksToMsAndBack ==
    /\ timing.pc = "ticks"
    /\ LET tempo == tempoArgument(timing.tempo)
           there == ticksToMs(timing.ticks, tempo)
       IN  timing' = [pc |-> "ticks_back", tempo |-> timing.tempo, from |-> timing.ticks,
                      ms |-> there, ticks |-> msToTicks(there, tempo)]
    /\ UNCHANGED <<recEvents, midiBytes, handBuilt, decoded, codecPc, recorderVars, keyVars,
                   playbackVars, budgetVars>>

\* ticksToMs(msToTicks(ms, tempo), tempo), the tempo given or omitted
MsToTicksAndBack ==
    /\ timing.pc = "ms"
    /\ LET tempo == tempoArgument(timing.tempo)
           there == msToTicks(timing.ms, tempo)
       IN  timing' = [pc |-> "ms_back", tempo |-> timing.tempo, from |-> timing.ms,
                      ticks |-> there, ms |-> ticksToMs(there, tempo)]
    /\ UNCHANGED <<recEvents, midiBytes, handBuilt, decoded, codecPc, recorderVars, keyVars,
                   playbackVars, budgetVars>>

NextTiming == TicksToMsAndBack \/ MsToTicksAndBack

SpecTiming == InitTiming /\ [][NextTiming]_vars

-----------------------------------------------------------------------------
(* Keyboard input: hardware MIDI, the pointer, and the agent's play tool.  *)

MaxInputs == 4

\* note-on and note-off on channel 1, a note-on with velocity 0, a note-on
\* and a note-off on channel 2, a control change, and a two-byte message
MidiMessages ==
    UNION {{<<144, n, 100>>, <<128, n, 0>>, <<144, n, 0>>, <<145, n, 100>>,
            <<129, n, 0>>} : n \in Notes}
    \cup {<<176, 7, 100>>, <<144, 60>>}

\* the chords and the sequences the agent asks for: C4 with C#4, and that
\* chord followed by C4 alone
Chords == {<<60, 61>>}
ToolSequences == {<<Step(<<60, 61>>, 80), Step(<<60>>, 80)>>}

Spend ==
    /\ opsLeft > 0
    /\ opsLeft' = opsLeft - 1
    /\ UNCHANGED framesLeft

MidiInput ==
    /\ Spend
    /\ \E data \in MidiMessages : handleMIDIMessage(data)
    /\ UNCHANGED <<codecVars, playbackVars>>

PointerDown ==
    /\ Spend
    /\ \E note \in Notes \cup {Null} : handlePointerDown(note)
    /\ UNCHANGED <<codecVars, playbackVars>>

PointerMove ==
    /\ Spend
    /\ \E note \in Notes \cup {Null} : handlePointerMove(note)
    /\ UNCHANGED <<codecVars, playbackVars>>

PointerUp ==
    /\ Spend
    /\ handlePointerUp
    /\ UNCHANGED <<codecVars, playbackVars>>

\* App.tsx handleStartSound, run by the 'startSound' event of the overlay
\* button the piano shows while sound is off, when its initializeAudio() is
\* over (set up or caught): setIsSoundOn(true)
StartSound ==
    /\ Spend
    /\ ~isSoundOn
    /\ isSoundOn' = TRUE
    /\ calls' = <<>>
    /\ UNCHANGED <<activeNotes, keyAnimations, animationId, animationFrames,
                   pointerDown, pointerNote, agentTimers, agentNotes, lastIntent>>
    /\ UNCHANGED <<codecVars, playbackVars>>

AgentPlayNote ==
    /\ Spend
    /\ \E note \in Notes : playNoteTool(note, 80)
    /\ UNCHANGED <<codecVars, playbackVars>>

AgentPlayChord ==
    /\ Spend
    /\ \E midiNotes \in Chords : playChordTool(midiNotes, 80)
    /\ UNCHANGED <<codecVars, playbackVars>>

AgentPlaySequence ==
    /\ Spend
    /\ \E sequence \in ToolSequences : playSequenceTool(sequence)
    /\ UNCHANGED <<codecVars, playbackVars>>

AgentStopAllNotes ==
    /\ Spend
    /\ stopAllNotesTool
    /\ UNCHANGED <<codecVars, playbackVars>>

AgentNoteTimeout ==
    /\ \E timer \in BagToSet(agentTimers) : agentTimeout(timer)
    /\ UNCHANGED <<codecVars, playbackVars, budgetVars>>

InitInput ==
    /\ CodecIdle
    /\ PianoIdle
    /\ isSoundOn \in BOOLEAN
    /\ PlaybackIdle
    /\ opsLeft = MaxInputs
    /\ framesLeft = 0

NextInput ==
    \/ MidiInput
    \/ PointerDown
    \/ PointerMove
    \/ PointerUp
    \/ StartSound
    \/ AgentPlayNote
    \/ AgentPlayChord
    \/ AgentPlaySequence
    \/ AgentStopAllNotes
    \/ AgentNoteTimeout

SpecInput == InitInput /\ [][NextInput]_vars

-----------------------------------------------------------------------------
(* The animation driver under key presses.                                 *)

MaxPresses == 2
MaxFrames == 33

InitAnim ==
    /\ CodecIdle
    /\ PianoIdle
    /\ isSoundOn = TRUE
    /\ PlaybackIdle
    /\ opsLeft = MaxPresses
    /\ framesLeft = MaxFrames

NextAnim == MidiInput \/ AnimationFrame

SpecAnim == InitAnim /\ [][NextAnim]_vars

-----------------------------------------------------------------------------
(* The animation driver left to run: the browser calls every requested     *)
(* frame, however many a press takes.                                      *)

MaxDriverOps == 2

\* framesLeft = -1: the frames are not counted
InitDriver ==
    /\ CodecIdle
    /\ PianoIdle
    /\ isSoundOn = TRUE
    /\ PlaybackIdle
    /\ opsLeft = MaxDriverOps
    /\ framesLeft = -1

NextDriver == MidiInput \/ AnimationFrame

SpecDriver == InitDriver /\ [][NextDriver]_vars /\ WF_vars(AnimationFrame)

-----------------------------------------------------------------------------
(* Synchronized playback: RecordingItem's play and stop buttons, the       *)
(* fetch, the metadata wait, and the frame loop, beside hardware input.    *)

MaxPlaybackOps == 3

\* audioElement.duration * 1000 of the first element once its metadata is
\* there: 2% and 5% above the ten seconds the recordings below last (the
\* second element's LoadedDuration is 10% above)
Durations == {10200, 10500}

\* audioElement.currentTime * 1000 as a frame may read it
CurrentTimes == {100, 125, 130, 10950}

TenSeconds ==
    <<Ev("on", 60, Div(Double(1), Double(2)), Zero),
      Ev("on", 61, Div(Double(1), Double(2)), Double(200)),
      Ev("off", 60, Zero, Double(10000))>>

\* What getRecordingEvents may resolve to: a ten-second take without and with
\* tempo meta, a take whose only event is at time 0, and no events.
PlaybackResults ==
    {Result(TenSeconds, FALSE, MICROSECONDS_PER_QUARTER),
     Result(TenSeconds, TRUE, 500000),
     Result(<<Ev("on", 61, Div(Double(1), Double(2)), Zero)>>, FALSE,
            MICROSECONDS_PER_QUARTER),
     EmptyResult}

PlaybackFrame ==
    UNCHANGED <<pointerDown, pointerNote, isSoundOn, agentTimers, agentNotes, lastIntent,
                codecVars, framesLeft>>

\* window.startSynchronizedPlayback(recordingId, audioElement) up to its
\* first await; element is an audio id or Null
startSynchronizedPlayback(element) ==
    LET requestId == playbackRequestId + 1
    IN  /\ playbackRequestId' = requestId
        /\ SetEngine(clearPlaybackVisualization(Engine, activeNotes))
        /\ sessions' = Append(sessions,
                              Session(IF element = Null THEN "returned" ELSE "fetching",
                                      element, NoResult))
        /\ lastPlayback' = Did("start", requestId,
                               IF element = Null THEN "no_audio" ELSE "fetching")
        /\ UNCHANGED waiters

\* RecordingItem.play: audioRef.current.play(), then the start
Play ==
    /\ Spend
    /\ \E a \in AudioIds :
          /\ audio' = [audio EXCEPT ![a].paused = FALSE]
          /\ startSynchronizedPlayback(a)
    /\ PlaybackFrame

StartWithoutAudio ==
    /\ Spend
    /\ startSynchronizedPlayback(Null)
    /\ UNCHANGED audio
    /\ PlaybackFrame

\* RecordingItem.stop: audioRef.current.pause(), then
\* window.stopPlaybackWithVisualization()
Stop ==
    /\ Spend
    /\ \E a \in AudioIds : audio' = [audio EXCEPT ![a].paused = TRUE]
    /\ SetEngine(clearPlaybackVisualization(Engine, activeNotes))
    /\ lastPlayback' = Did("stop", 0, "stopped")
    /\ UNCHANGED <<playbackRequestId, sessions, waiters>>
    /\ PlaybackFrame

\* the audio reaches its end, or is paused from elsewhere
AudioPaused ==
    /\ Spend
    /\ \E a \in AudioIds :
          /\ ~audio[a].paused
          /\ audio' = [audio EXCEPT ![a].paused = TRUE]
    /\ UNCHANGED <<playbackNotes, playbackEvents, playbackEventIndex, playbackRaf,
                   playbackLastTime, playbackRequestId, sessions, waiters,
                   rafPending, lastPlayback, keyVars, codecVars, framesLeft>>

\* the checks between the fetch and the metadata wait, without the return
\* on an empty event list
fetchOutcomeUnchecked(result, requestId, known) ==
    IF playbackRequestId # requestId THEN "superseded"
    ELSE IF known = Null THEN "waiting"
    ELSE "scheduled"

\* if (rawEvents.length === 0) return; if (playbackRequestIdRef.current !==
\* requestId) return; then the wait for the duration unless it is known
fetchOutcome(result, requestId, known) ==
    IF Len(result.events) = 0 THEN "empty"
    ELSE IF playbackRequestId # requestId THEN "superseded"
    ELSE IF known = Null THEN "waiting"
    ELSE "scheduled"

\* the continuation after await getRecordingEvents(recordingId), up to the
\* await inside ensureAudioDurationMs; with the duration known that await
\* resolves at once and the continuation runs on
FetchDone ==
    \E requestId \in 1..Len(sessions), result \in PlaybackResults :
       LET session == sessions[requestId]
           known == readDuration(audio[session.audio])
           outcome == fetchOutcome(result, requestId, known)
       IN  /\ session.pc = "fetching"
           /\ lastPlayback' = DidLoad("fetch", requestId, outcome,
                                      IF outcome = "scheduled" THEN Load(result, known)
                                      ELSE NoLoad)
           /\ IF outcome = "scheduled"
              THEN /\ SetEngine(afterMetadataWait(Engine, requestId, result, known))
                   /\ sessions' = [sessions EXCEPT ![requestId].pc = "returned"]
                   /\ UNCHANGED waiters
              ELSE IF outcome = "waiting"
              THEN /\ sessions' = [sessions EXCEPT ![requestId].pc = "waiting",
                                                   ![requestId].result = result]
                   /\ waiters' = Append(waiters, requestId)
                   /\ SetEngine(Engine)
              ELSE /\ sessions' = [sessions EXCEPT ![requestId].pc = "returned"]
                   /\ SetEngine(Engine)
                   /\ UNCHANGED waiters
           /\ UNCHANGED <<playbackRequestId, audio, opsLeft>>
           /\ PlaybackFrame

\* every waiting listener of one event or timer resolves, oldest first
RECURSIVE resumeWaiters(_, _, _)
resumeWaiters(E, resolved, audioDurationMs) ==
    IF resolved = <<>> THEN E
    ELSE resumeWaiters(afterMetadataWait(E, Head(resolved),
                                         sessions[Head(resolved)].result,
                                         audioDurationMs),
                       Tail(resolved), audioDurationMs)

Resumed(resolved) ==
    [s \in 1..Len(sessions) |->
        IF Has(resolved, s) THEN Session("returned", sessions[s].audio, NoResult)
        ELSE sessions[s]]

\* the element's loadedmetadata event: the duration becomes known and the
\* onLoadedMetadata listeners resolve with it
LoadedMetadata ==
    \E a \in AudioIds, duration \in Durations :
       LET resolved == SelectSeq(waiters, LAMBDA s : sessions[s].audio = a)
           loaded == [audio EXCEPT ![a].duration = duration]
       IN  /\ audio[a].duration = 0
           /\ audio' = loaded
           /\ SetEngine(resumeWaiters(Engine, resolved, readDuration(loaded[a])))
           /\ sessions' = Resumed(resolved)
           /\ waiters' = SelectSeq(waiters, LAMBDA s : sessions[s].audio # a)
           /\ lastPlayback' =
                 IF resolved = <<>> THEN Did("loadedmetadata", 0, "none")
                 ELSE LET last == resolved[Len(resolved)]
                      IN  DidLoad("loadedmetadata", last, "scheduled",
                                  Load(sessions[last].result, readDuration(loaded[a])))
           /\ UNCHANGED <<playbackRequestId, opsLeft>>
           /\ PlaybackFrame

\* the 1500 ms timer of the oldest wait: resolve(readDuration())
MetadataTimeout ==
    /\ waiters # <<>>
    /\ LET requestId == Head(waiters)
       IN  /\ SetEngine(resumeWaiters(Engine, <<requestId>>,
                                      readDuration(audio[sessions[requestId].audio])))
           /\ sessions' = Resumed(<<requestId>>)
           /\ lastPlayback' =
                 DidLoad("timeout", requestId, "scheduled",
                         Load(sessions[requestId].result,
                              readDuration(audio[sessions[requestId].audio])))
    /\ waiters' = Tail(waiters)
    /\ UNCHANGED <<playbackRequestId, audio, opsLeft>>
    /\ PlaybackFrame

\* the browser calls the oldest requested frame callback
Run ==
    /\ rafPending # <<>>
    /\ \E currentTimeMs \in CurrentTimes :
          LET requestId == Head(rafPending)
              paused == audio[sessions[requestId].audio].paused
              called == [Engine EXCEPT !.pending = Tail(@)]
              outcome == IF playbackRequestId # requestId THEN "stale"
                         ELSE IF paused THEN "paused"
                         ELSE IF isScrubBack(currentTimeMs, playbackLastTime)
                         THEN "reset"
                         ELSE "advance"
          IN  /\ SetEngine(run(called, requestId, playbackRequestId, paused,
                               currentTimeMs, activeNotes))
              /\ lastPlayback' = Did("run", requestId, outcome)
    /\ UNCHANGED <<playbackRequestId, sessions, waiters, audio, opsLeft>>
    /\ PlaybackFrame

\* a hardware key pressed and released while a recording plays
HeldKeyMessages == {<<144, 60, 100>>, <<128, 60, 0>>}

HeldKey ==
    /\ Spend
    /\ \E data \in HeldKeyMessages : handleMIDIMessage(data)
    /\ UNCHANGED <<codecVars, playbackVars>>

InitPlayback ==
    /\ CodecIdle
    /\ PianoIdle
    /\ isSoundOn = TRUE
    /\ PlaybackIdle
    /\ opsLeft = MaxPlaybackOps
    /\ framesLeft = 0

NextPlayback ==
    \/ Play
    \/ StartWithoutAudio
    \/ Stop
    \/ AudioPaused
    \/ FetchDone
    \/ LoadedMetadata
    \/ MetadataTimeout
    \/ Run
    \/ HeldKey

SpecPlayback == InitPlayback /\ [][NextPlayback]_vars

-----------------------------------------------------------------------------
(* The metadata wait: recordings are started and stopped while the audio   *)
(* elements load.  The 1500 ms timer of a wait is a browser timer: it      *)
(* fires unless the loadedmetadata listener cleared it first.              *)

MaxWaitOps == 2

InitWait ==
    /\ CodecIdle
    /\ PianoIdle
    /\ isSoundOn = TRUE
    /\ PlaybackIdle
    /\ opsLeft = MaxWaitOps
    /\ framesLeft = 0

NextWait ==
    \/ Play
    \/ Stop
    \/ FetchDone
    \/ LoadedMetadata
    \/ MetadataTimeout
    \/ Run

SpecWait == InitWait /\ [][NextWait]_vars /\ WF_vars(MetadataTimeout)

-----------------------------------------------------------------------------
(* Recording: hooks/useRecording.ts startRecording, stopRecording and      *)
(* recordEvent, fed by App.tsx handleNoteOn and handleNoteOff from the     *)
(* piano's handlers.  A render lies between two user actions, so the       *)
(* callbacks see the isRecording state last set.                           *)

MaxRecordingOps == 5

\* now(): performance.now(), counted in user actions since the page was
\* loaded; it is positive by the time a handler runs
now == 1 + (MaxRecordingOps - opsLeft)

\* recordEvent(type, note, velocity) on what currentRecordingRef holds:
\* nothing while isRecordingRef is false or there is no current recording,
\* else startedAt is set if it is not (0 is falsy) and one event is pushed,
\* with the velocity as given.  called is history: the time the piano's
\* handler reported the note.
pushEvent(recording, active, type, note, velocity, called) ==
    IF ~active \/ recording = NoRecording THEN recording
    ELSE LET startedAt == IF recording.startedAt = 0 THEN now ELSE recording.startedAt
         IN  [recording EXCEPT
                 !.startedAt = startedAt,
                 !.events = Append(@, [type |-> type, note |-> note,
                                       velocity |-> velocity,
                                       time |-> now - startedAt, called |-> called])]

\* The recorder as the handlers of App.tsx work on it
Recorder == [current |-> currentRecording, pending |-> pendingNoteOns]

\* handleNoteOn(note, velocity): await initializeAudio() unless audio is
\* ready, then recordEvent('on', note, velocity).  With audio initialized the
\* await, if made at all, is over before any other handler runs.
handleNoteOn(R, note, velocity) ==
    IF isInitialized
    THEN [R EXCEPT !.current = pushEvent(@, isRecordingRef, "on", note, velocity, now)]
    ELSE [R EXCEPT !.pending = Append(@, [note |-> note, velocity |-> velocity,
                                           called |-> now])]

\* handleNoteOff(note): recordEvent('off', note, 0)
handleNoteOff(R, note) ==
    [R EXCEPT !.current = pushEvent(@, isRecordingRef, "off", note, 0, now)]

\* the onNoteOn and onNoteOff calls of a piano handler, in the order made
RECURSIVE dispatch(_, _)
dispatch(R, made) ==
    IF made = <<>> THEN R
    ELSE LET call == Head(made)
         IN  dispatch(IF call.fn = "onNoteOn" THEN handleNoteOn(R, call.note, call.velocity)
                      ELSE IF call.fn = "onNoteOff" THEN handleNoteOff(R, call.note)
                      ELSE R,
                      Tail(made))

\* the continuations of handleNoteOn after initializeAudio() resolved
RECURSIVE resumeNoteOns(_, _, _)
resumeNoteOns(recording, active, waiting) ==
    IF waiting = <<>> THEN recording
    ELSE resumeNoteOns(pushEvent(recording, active, "on", Head(waiting).note,
                                 Head(waiting).velocity, Head(waiting).called),
                       active, Tail(waiting))

\* prev.filter(r => r !== recording), for the recording at place i
removeRecording(list, i) == SubSeq(list, 1, i - 1) \o SubSeq(list, i + 1, Len(list))

\* What localStorage holds under 'cozy-keys-recordings' when the page is
\* loaded, if it holds anything: an empty list, or one recording of an
\* earlier visit.
StoredRecordings == {<<>>, <<[id |-> 0, events |-> <<>>]>>}

RecorderFrame ==
    UNCHANGED <<recEvents, midiBytes, handBuilt, decoded, codecPc, timing, playbackVars>>

\* startRecording()
StartRecording ==
    /\ Spend
    /\ ~isRecording
    /\ isRecording' = TRUE
    /\ isRecordingRef' = TRUE
    /\ takes' = takes + 1
    /\ currentRecording' = [id |-> takes + 1, startedAt |-> now, events |-> <<>>]
    /\ UNCHANGED <<finalizeTimers, recordings, isInitialized, pendingNoteOns,
                   storageLoaded, keyVars>>
    /\ RecorderFrame

\* stopRecording(), up to setTimeout(checkAudioAndAdd, 100)
StopRecording ==
    /\ Spend
    /\ isRecording
    /\ isRecording' = FALSE
    /\ isRecordingRef' = FALSE
    /\ finalizeTimers' = Append(finalizeTimers, currentRecording)
    /\ UNCHANGED <<currentRecording, recordings, takes, isInitialized, pendingNoteOns,
                   storageLoaded, keyVars>>
    /\ RecorderFrame

\* checkAudioAndAdd, 100 ms after a stop: what currentRecordingRef holds, if
\* anything, is encoded and put first in recordings; the ref is set to null
CheckAudioAndAdd ==
    /\ finalizeTimers # <<>>
    /\ finalizeTimers' = Tail(finalizeTimers)
    /\ recordings' = IF currentRecording # NoRecording
                     THEN <<[id |-> currentRecording.id,
                             events |-> currentRecording.events]>> \o recordings
                     ELSE recordings
    /\ currentRecording' = NoRecording
    /\ UNCHANGED <<isRecording, isRecordingRef, takes, isInitialized, pendingNoteOns,
                   storageLoaded, keyVars, budgetVars>>
    /\ RecorderFrame

\* The mount effect's loadRecordingsFromStorage, when its reads are done:
\* setRecordings(what was stored), if anything was
LoadRecordingsFromStorage ==
    /\ ~storageLoaded
    /\ storageLoaded' = TRUE
    /\ \/ recordings' = recordings
       \/ \E saved \in StoredRecordings : recordings' = saved
    /\ UNCHANGED <<isRecording, isRecordingRef, currentRecording, finalizeTimers, takes,
                   isInitialized, pendingNoteOns, keyVars, budgetVars>>
    /\ RecorderFrame

\* clearRecordings()
ClearRecordings ==
    /\ Spend
    /\ recordings' = <<>>
    /\ UNCHANGED <<isRecording, isRecordingRef, currentRecording, finalizeTimers, takes,
                   isInitialized, pendingNoteOns, storageLoaded, keyVars>>
    /\ RecorderFrame

\* deleteLocalRecording(recording), for a recording of the list
DeleteLocalRecording ==
    /\ Spend
    /\ \E i \in 1..Len(recordings) : recordings' = removeRecording(recordings, i)
    /\ UNCHANGED <<isRecording, isRecordingRef, currentRecording, finalizeTimers, takes,
                   isInitialized, pendingNoteOns, storageLoaded, keyVars>>
    /\ RecorderFrame

\* uploadToCloud(title, recording), when uploadRecording has answered: the
\* recording leaves the list if the upload gave a result
UploadToCloud ==
    /\ Spend
    /\ \E i \in 1..Len(recordings), uploaded \in BOOLEAN :
          recordings' = IF uploaded THEN removeRecording(recordings, i) ELSE recordings
    /\ UNCHANGED <<isRecording, isRecordingRef, currentRecording, finalizeTimers, takes,
                   isInitialized, pendingNoteOns, storageLoaded, keyVars>>
    /\ RecorderFrame

\* a key of the hardware keyboard or the pointer on key 60, and what the
\* handler's onNoteOn and onNoteOff calls do in App.tsx
NoteInput ==
    /\ Spend
    /\ \/ \E data \in HeldKeyMessages : handleMIDIMessage(data)
       \/ handlePointerDown(60)
       \/ handlePointerUp
    /\ LET R == dispatch(Recorder, calls')
       IN  /\ currentRecording' = R.current
           /\ pendingNoteOns' = R.pending
    /\ UNCHANGED <<isRecording, isRecordingRef, finalizeTimers, recordings, takes,
                   isInitialized, storageLoaded>>
    /\ RecorderFrame

\* play_note of the agent for key 60: no onNoteOn, nothing for the recorder
AgentNote ==
    /\ Spend
    /\ playNoteTool(60, 80)
    /\ UNCHANGED <<codecVars, playbackVars>>

\* initializeAudio() resolves with the audio set up (Tone.start() resolved):
\* the handleNoteOn calls that awaited it go on
AudioInitialized ==
    /\ ~isInitialized
    /\ isInitialized' = TRUE
    /\ currentRecording' = resumeNoteOns(currentRecording, isRecordingRef, pendingNoteOns)
    /\ pendingNoteOns' = <<>>
    /\ UNCHANGED <<isRecording, isRecordingRef, finalizeTimers, recordings, takes,
                   storageLoaded, keyVars, budgetVars>>
    /\ RecorderFrame

\* initializeAudio() of the oldest waiting handleNoteOn resolves through its
\* catch (Tone.start() rejected or the set-up threw): the flags stay false
\* and handleNoteOn goes on to recordEvent
AudioInitializationFailed ==
    /\ ~isInitialized
    /\ pendingNoteOns # <<>>
    /\ currentRecording' =
          resumeNoteOns(currentRecording, isRecordingRef, <<Head(pendingNoteOns)>>)
    /\ pendingNoteOns' = Tail(pendingNoteOns)
    /\ UNCHANGED <<isRecording, isRecordingRef, finalizeTimers, recordings, takes,
                   isInitialized, storageLoaded, keyVars, budgetVars>>
    /\ RecorderFrame

\* setEnvironment(environment) with another environment: when the audio is
\* initialized the flags are reset and initializeAudio(environment) is
\* awaited; with the context running it sets them again before it returns,
\* else it waits for Tone.start()
SetEnvironment ==
    /\ Spend
    /\ \E running \in BOOLEAN :
          isInitialized' = IF isInitialized THEN running ELSE isInitialized
    /\ UNCHANGED <<isRecording, isRecordingRef, currentRecording, finalizeTimers,
                   recordings, takes, pendingNoteOns, storageLoaded, keyVars>>
    /\ RecorderFrame

InitRecording ==
    /\ CodecIdle
    /\ PianoIdle
    /\ isSoundOn \in BOOLEAN
    /\ PlaybackIdle
    /\ opsLeft = MaxRecordingOps
    /\ framesLeft = 0

NextRecording ==
    \/ StartRecording
    \/ StopRecording
    \/ CheckAudioAndAdd
    \/ LoadRecordingsFromStorage
    \/ ClearRecordings
    \/ DeleteLocalRecording
    \/ UploadToCloud
    \/ NoteInput
    \/ StartSound
    \/ AgentNote
    \/ AgentNoteTimeout
    \/ AudioInitialized
    \/ AudioInitializationFailed
    \/ SetEnvironment

SpecRecording == InitRecording /\ [][NextRecording]_vars

-----------------------------------------------------------------------------
(* Rendering during playback: one recording is played beside a hardware    *)
(* key, and the animation driver's frames move the keys.                   *)

MaxRenderOps == 2
MaxRenderFrames == 5

InitRender ==
    /\ CodecIdle
    /\ PianoIdle
    /\ isSoundOn = TRUE
    /\ PlaybackIdle
    /\ opsLeft = MaxRenderOps
    /\ framesLeft = MaxRenderFrames

\* the play button of one recording, pressed once
PlayOnce ==
    /\ playbackRequestId = 0
    /\ Play

NextRender ==
    \/ PlayOnce
    \/ FetchDone
    \/ Run
    \/ HeldKey
    \/ AnimationFrame

SpecRender == InitRender /\ [][NextRender]_vars

-----------------------------------------------------------------------------
(* Properties of the codec (SpecCodec).                                    *)

\* |a - b| <= p / q, in exact arithmetic
Within(a, b, p, q) ==
    LE(Exact(Product(MathAbs(Exact(Sum(a, Neg(b)))), Double(q))), Double(p))

EvSame(a, b) ==
    /\ a.type = b.type
    /\ a.note = b.note
    /\ a.time = b.time
    /\ a.velocity = b.velocity

Count(events, e) == Cardinality({i \in 1..Len(events) : EvSame(events[i], e)})

\* On/Off events with non-negative, non-decreasing times, velocities in [0, 1]
WellFormed(events) ==
    /\ \A i \in 1..Len(events) :
          /\ events[i].type \in {"on", "off"}
          /\ GE(events[i].time, Zero)
          /\ LE(Zero, events[i].velocity)
          /\ LE(events[i].velocity, Double(1))
    /\ \A i \in 1..Len(events) - 1 : LE(events[i].time, events[i + 1].time)

RoundTripped == codecPc = "decoded" /\ handBuilt = NoShape /\ WellFormed(recEvents)

\* C1: decoding what encodeMidi wrote for a well-formed recording gives back
\* as many events, in the same order, with the same kind and note, each time
\* within one tick (1000/480 ms) of the original and each On velocity within
\* 1/127 of the original.
C1_RoundTrip ==
    RoundTripped =>
        /\ Len(decoded.events) = Len(recEvents)
        /\ \A i \in 1..Len(recEvents) :
              LET was == recEvents[i]
                  got == decoded.events[i]
              IN  /\ got.type = was.type
                  /\ got.note = was.note
                  /\ Within(got.time, was.time, 1000, 480)
                  /\ was.type = "on" => Within(got.velocity, was.velocity, 1, 127)

\* a soft On (velocity 0.001) and a later event three delta bytes away
C1_Witness ==
    /\ RoundTripped
    /\ Len(recEvents) = 2
    /\ recEvents[1].type = "on"
    /\ recEvents[1].velocity = Div(Double(1), Double(1000))
    /\ recEvents[1].time = Double(1)
    /\ recEvents[2].time = Double(34134)
    /\ decoded.events[2].time = Div(Double(102400), Double(3))

\* C2: encodeMidi([]) returns the header chunk and one track chunk whose body
\* is the end-of-track marker alone, and decoding that stream gives no events
\* and no tempo meta.
C2_EmptyInput ==
    (handBuilt = NoShape /\ recEvents = <<>>) =>
        /\ codecPc # "hang"
        /\ codecPc \in {"stored", "decoded"} =>
              midiBytes = <<77, 84, 104, 100, 0, 0, 0, 6, 0, 0, 0, 1, 1, 224,
                            77, 84, 114, 107, 0, 0, 0, 4, 0, 255, 47, 0>>
        /\ codecPc = "decoded" =>
              /\ ~decoded.thrown
              /\ decoded.events = <<>>
              /\ ~decoded.hasTempoMeta

C2_Witness ==
    /\ handBuilt = NoShape
    /\ recEvents = <<>>
    /\ codecPc = "decoded"
    /\ Len(midiBytes) = 26
    /\ decoded.events = <<>>

\* A hand-constructed file that lost bytes at its end, or whose track chunk
\* declares more bytes than the file holds.
Truncated == handBuilt # NoShape /\ (handBuilt.cut > 0 \/ handBuilt.extra > 0)

\* C3 (part that holds): getRecordingEvents never throws, whatever the bytes.
C3_NeverThrows == codecPc \in {"decoded", "fetch_failed"} => ~decoded.thrown

\* C3 as stated: a truncated input decodes to no events, no tempo meta and
\* the default tempo; nothing decoded before the truncation is returned.
C3_MalformedYieldsEmpty ==
    (codecPc = "decoded" /\ Truncated) =>
        /\ decoded.events = <<>>
        /\ ~decoded.hasTempoMeta
        /\ decoded.microsecondsPerQuarter = 1000000

\* A well-formed hand-constructed file of notes, tempo and text meta events,
\* with a tempo meta among them.
TempoStream ==
    /\ handBuilt # NoShape
    /\ handBuilt.eot
    /\ handBuilt.extra = 0
    /\ handBuilt.cut = 0
    /\ \A i \in 1..Len(handBuilt.items) :
          handBuilt.items[i].kind \in {"on", "off", "tempo", "text"}
    /\ \E i \in 1..Len(handBuilt.items) : handBuilt.items[i].kind = "tempo"

\* the 3-byte big-endian value of a tempo item (FF 51 03 b1 b2 b3)
tempoValue(item) == item.data[4] * 65536 + item.data[5] * 256 + item.data[6]

\* The note events the items stand for, each at absoluteTicks *
\* (value / 1000) / 480 ms with the value of the last tempo item before it.
RECURSIVE expectedNotes(_, _, _, _)
expectedNotes(items, i, absoluteTicks, value) ==
    IF i > Len(items) THEN <<>>
    ELSE LET item == items[i]
             ticks == absoluteTicks + item.delta
             time == Div(Mul(Double(ticks), Div(Double(value), Double(1000))),
                         Double(480))
         IN  IF item.kind = "tempo"
             THEN expectedNotes(items, i + 1, ticks, tempoValue(item))
             ELSE IF item.kind = "on"
             THEN <<Ev("on", item.data[2], Div(Double(item.data[3]), Double(127)), time)>>
                  \o expectedNotes(items, i + 1, ticks, value)
             ELSE IF item.kind = "off"
             THEN <<Ev("off", item.data[2], Zero, time)>>
                  \o expectedNotes(items, i + 1, ticks, value)
             ELSE expectedNotes(items, i + 1, ticks, value)

RECURSIVE lastTempo(_, _)
lastTempo(items, i) ==
    IF items[i].kind = "tempo" THEN tempoValue(items[i]) ELSE lastTempo(items, i - 1)

\* C4: a stream with a tempo meta decodes with hasTempoMeta and with
\* microsecondsPerQuarter equal to the (last) tempo value, and every note is
\* timed with the tempo in effect when it is decoded, not the default.
C4_TempoRecovery ==
    (codecPc = "decoded" /\ TempoStream) =>
        LET expected == expectedNotes(handBuilt.items, 1, 0, 1000000)
        IN  /\ decoded.hasTempoMeta
            /\ decoded.microsecondsPerQuarter =
                  lastTempo(handBuilt.items, Len(handBuilt.items))
            /\ Len(decoded.events) = Len(expected)
            /\ \A i \in 1..Len(expected) :
                  Count(decoded.events, expected[i]) = Count(expected, expected[i])

\* tempo 500000, then a note 96 ticks later: 100 ms, not the 200 ms of the
\* default tempo
C4_Witness ==
    /\ codecPc = "decoded"
    /\ TempoStream
    /\ Len(handBuilt.items) = 2
    /\ handBuilt.items[1].kind = "tempo"
    /\ handBuilt.items[1].delta = 0
    /\ tempoValue(handBuilt.items[1]) = 500000
    /\ handBuilt.items[2].kind = "on"
    /\ handBuilt.items[2].delta = 96
    /\ Len(decoded.events) = 1
    /\ decoded.events[1].time = Double(100)

-----------------------------------------------------------------------------
(* Properties of the input handlers (SpecInput).                           *)

Occurrences(set, x) == Cardinality({i \in 1..Len(set) : set[i] = x})

\* C5: with the sound on, a note-on intent reported twice in a row by the
\* hardware MIDI handler (channel 1) or by the pointer handler, for a note
\* that was not pressed before, makes exactly one playNote call and leaves the
\* note in the pressed set exactly once.
C5_IdempotentPress ==
    ( /\ isSoundOn
      /\ lastIntent.intent.kind = "on"
      /\ lastIntent.intent.source \in {"midi", "pointer"}
      /\ lastIntent.intent.channel \in {0, 1}
      /\ lastIntent.fresh
      /\ lastIntent.run = 2 )
    => /\ lastIntent.plays = 1
       /\ Occurrences(activeNotes, lastIntent.intent.note) = 1

-----------------------------------------------------------------------------
(* Properties of the animation driver (SpecAnim).                          *)

\* |target - progress| <= 0.01, in exact arithmetic
WithinEpsilon(anim) == Within(Double(anim.target), anim.progress, 1, 100)

PressedFromRest(anim) == anim.target = 1 /\ anim.from = Zero

C9_Converges ==
    \A n \in DOMAIN keyAnimations :
       LET anim == keyAnimations[n]
       IN  PressedFromRest(anim) =>
              /\ anim.ticks < 29 => ~WithinEpsilon(anim)
              /\ anim.ticks >= 29 => WithinEpsilon(anim)
              /\ anim.ticks >= 30 => anim.progress = Double(1)
              /\ anim.ticks <= 30

C9_DriverStops ==
    ( /\ framesLeft' # framesLeft
      /\ \A n \in DOMAIN keyAnimations : WithinEpsilon(keyAnimations[n]) )
    => ~animationId'

\* C9: a key pressed from rest (progress 0, target 1, the target not changed
\* since) is farther than 0.01 from 1 for its first 28 ticks and within 0.01
\* from the 29th on, the 30th tick sets progress to exactly 1, and a frame
\* that finds every key within 0.01 of its target requests no further frame.
C9_AnimationConvergence == []C9_Converges /\ [][C9_DriverStops]_vars

C9_Witness ==
    /\ 60 \in DOMAIN keyAnimations
    /\ PressedFromRest(keyAnimations[60])
    /\ keyAnimations[60].ticks = 30
    /\ keyAnimations[60].progress = Double(1)
    /\ ~animationId
    /\ framesLeft < MaxFrames

-----------------------------------------------------------------------------
(* Properties of synchronized playback (SpecPlayback).                     *)

EngineStepped == lastPlayback' # lastPlayback

Target(anims, n) == anims[n].target

\* C6: every start takes a greater token and leaves no frame of the session
\* it supersedes requested, and a frame callback of a superseded session
\* changes no ghost note, no animation target and requests no frame.
C6_Step ==
    /\ playbackRequestId' # playbackRequestId =>
          /\ playbackRequestId' > playbackRequestId
          /\ ~Has(rafPending', playbackRequestId)
    /\ (EngineStepped /\ lastPlayback'.outcome = "stale") =>
          /\ playbackNotes' = playbackNotes
          /\ DOMAIN keyAnimations' = DOMAIN keyAnimations
          /\ \A n \in DOMAIN keyAnimations :
                Target(keyAnimations', n) = Target(keyAnimations, n)
          /\ rafPending' = Tail(rafPending)

C6_SessionSupersession == [][C6_Step]_vars

\* |audioDuration / lastEventTime - 1| > 0.05 in exact arithmetic, that is
\* 20 * |audioDuration - lastEventTime| > lastEventTime
DeviatesMoreThanFivePercent(audioDurationMs, lastEventTime) ==
    GT(Exact(Product(Double(20),
                     MathAbs(Exact(Sum(Double(audioDurationMs), Neg(lastEventTime)))))),
       lastEventTime)

\* C7: the loaded event times are the raw times multiplied by audioDuration /
\* lastEventTime if the file has no tempo meta, the duration is known,
\* lastEventTime > 0 and the ratio deviates from 1 by more than 5%; otherwise
\* (a deviation of exactly 5% included) they are the raw times.
C7_DriftRescale ==
    lastPlayback.outcome = "scheduled" =>
        LET loaded == lastPlayback.loaded
            raw == loaded.rawEvents
            last == raw[Len(raw)].time
            a == loaded.audioDurationMs
            rescale == /\ ~loaded.hasTempoMeta
                       /\ a # Null
                       /\ GT(last, Zero)
                       /\ DeviatesMoreThanFivePercent(a, last)
        IN  /\ Len(playbackEvents) = Len(raw)
            /\ \A i \in 1..Len(raw) :
                  /\ playbackEvents[i].type = raw[i].type
                  /\ playbackEvents[i].note = raw[i].note
                  /\ IF rescale
                     THEN playbackEvents[i].time = Mul(raw[i].time, Div(Double(a), last))
                     ELSE playbackEvents[i].time = raw[i].time

\* Math.max(0, time - 75) <= currentTimeMs + 25, i.e. time <= currentTimeMs + 100
DueAt(event, currentTimeMs) == LE(event.time, Double(currentTimeMs + 100))

\* the index the cursor stops at when it starts at index and fires what is due
RECURSIVE CursorAfter(_, _, _)
CursorAfter(events, index, currentTimeMs) ==
    IF index < Len(events) /\ DueAt(events[index + 1], currentTimeMs)
    THEN CursorAfter(events, index + 1, currentTimeMs)
    ELSE index

\* the ghost set after the events index + 1 .. upto fired on it
RECURSIVE GhostAfter(_, _, _, _)
GhostAfter(ghost, events, index, upto) ==
    IF index >= upto THEN ghost
    ELSE GhostAfter(IF events[index + 1].type = "on"
                    THEN SetAdd(ghost, events[index + 1].note)
                    ELSE SetDelete(ghost, events[index + 1].note),
                    events, index + 1, upto)

\* the last frame was one of the live session that found the audio playing
\* (a step of another part that follows it leaves the engine as it is)
FrameRan == lastPlayback'.op = "run" /\ lastPlayback'.outcome \in {"reset", "advance"}

C8_Step ==
    FrameRan =>
        LET currentTimeMs == playbackLastTime'
            restarted == CursorAfter(playbackEvents, 0, currentTimeMs)
            continued == CursorAfter(playbackEvents, playbackEventIndex, currentTimeMs)
        IN  IF currentTimeMs + 25 < playbackLastTime
            THEN /\ playbackEventIndex' = restarted
                 /\ playbackNotes' = GhostAfter(<<>>, playbackEvents, 0, restarted)
            ELSE /\ playbackEventIndex' = continued
                 /\ playbackNotes' = GhostAfter(playbackNotes, playbackEvents,
                                                playbackEventIndex, continued)

\* C8: a frame that reads a time more than 25 ms before the time the frame
\* before read empties the ghost set and restarts the cursor at 0 before it
\* fires what is due, so the events are replayed from the start up to that
\* time; a frame that reads a time at most 25 ms before does not.
C8_ScrubReset == [][C8_Step]_vars

\* after 130 ms had fired two events of a take stretched by 11000 / 10000
\* (its second event at 200 * 1.1 = 220.00000000000003 ms), a frame at 100 ms
\* replayed the first alone
C8_Witness ==
    /\ lastPlayback.op = "run"
    /\ lastPlayback.outcome = "reset"
    /\ playbackLastTime = 100
    /\ Len(playbackEvents) = 3
    /\ playbackEvents[2].time = Sum(Double(220), [neg |-> FALSE, m |-> <<1>>, e |-> -45])
    /\ playbackEventIndex = 1
    /\ playbackNotes = <<60>>

\* a frame that found the audio paused, a start without an audio element, or
\* a call of stopPlaybackWithVisualization
StopCondition ==
    EngineStepped /\ lastPlayback'.outcome \in {"paused", "no_audio", "stopped"}

\* C10: after a stop condition the ghost set is empty, no frame of the live
\* session is requested, every ghost note that is not pressed has target 0
\* and every ghost note that is pressed has the target it had.
C10_Step ==
    StopCondition =>
        /\ playbackNotes' = <<>>
        /\ ~Has(rafPending', playbackRequestId')
        /\ \A n \in Members(playbackNotes) :
              IF Has(activeNotes, n)
              THEN Target(keyAnimations', n) = Target(keyAnimations, n)
              ELSE Target(keyAnimations', n) = 0

C10_StopConditions == [][C10_Step]_vars

-----------------------------------------------------------------------------
(* The layout of the file encodeMidi returns.                              *)

\* A file encodeMidi returned for the recording in recEvents
EncodedFile == handBuilt = NoShape /\ codecPc \in {"stored", "decoded"}

\* The unsigned 32-bit big-endian number at bytes[at + 1 .. at + 4]
BigEndian32(bytes, at) ==
    ((bytes[at + 1] * 256 + bytes[at + 2]) * 256 + bytes[at + 3]) * 256 + bytes[at + 4]

\* C11: every file encodeMidi returns is 'MThd', length 6, format 0, one
\* track, division 480, then one 'MTrk' chunk that runs to the end of the
\* file, whose length field is the number of body bytes after it and whose
\* body ends with 00 FF 2F 00.
C11_FileLayout ==
    EncodedFile =>
        LET n == Len(midiBytes)
        IN  /\ n >= 26
            /\ SubSeq(midiBytes, 1, 4) = <<77, 84, 104, 100>>
            /\ BigEndian32(midiBytes, 4) = 6
            /\ SubSeq(midiBytes, 9, 14) = <<0, 0, 0, 1, 1, 224>>
            /\ SubSeq(midiBytes, 15, 18) = <<77, 84, 114, 107>>
            /\ BigEndian32(midiBytes, 18) = n - 22
            /\ SubSeq(midiBytes, n - 3, n) = <<0, 255, 47, 0>>

\* two events, the second three delta bytes after the first: 14 bytes of body
C11_Witness ==
    /\ EncodedFile
    /\ Len(recEvents) = 2
    /\ recEvents[1].time = Zero
    /\ recEvents[2].time = Double(34134)
    /\ Len(midiBytes) = 36
    /\ BigEndian32(midiBytes, 18) = 14

\* Where event i of the recording starts in the file encodeMidi wrote: after
\* the 22 bytes of header and chunk header and the events before it.
RECURSIVE eventOffset(_, _, _)
eventOffset(events, deltas, i) ==
    IF i = 1 THEN 22
    ELSE eventOffset(events, deltas, i - 1) + Len(writeVarLen(deltas[i - 1])) + 3

\* The status, note and velocity bytes written for event i
messageAt(bytes, events, i) ==
    LET deltas == deltasFrom(events, 1, 0)
        at == eventOffset(events, deltas, i) + Len(writeVarLen(deltas[i]))
    IN  <<bytes[at + 1], bytes[at + 2], bytes[at + 3]>>

\* k = round(x) as Math.round rounds: k - 1/2 <= x < k + 1/2
IsRoundOf(k, x) ==
    /\ LE(Div(Double(2 * k - 1), Double(2)), x)
    /\ LT(x, Div(Double(2 * k + 1), Double(2)))

\* C12: for every On event with velocity v in [0, 1] the file holds a note-on
\* message (status 0x90) whose velocity byte is max(1, round(127 v)), a value
\* in 1..127 and never 0.
C12_VelocityByte ==
    EncodedFile =>
        \A i \in 1..Len(recEvents) :
            LET ev == recEvents[i]
                msg == messageAt(midiBytes, recEvents, i)
                scaled == Exact(Product(ev.velocity, Double(127)))
            IN  (/\ ev.type = "on"
                 /\ LE(Zero, ev.velocity)
                 /\ LE(ev.velocity, Double(1))) =>
                    /\ msg[1] = 144
                    /\ msg[2] = ev.note
                    /\ msg[3] \in 1..127
                    /\ IF LT(scaled, Div(Double(3), Double(2))) THEN msg[3] = 1
                       ELSE IsRoundOf(msg[3], scaled)

\* a silent On (velocity 0) written as 1, after an On at half velocity (64)
C12_Witness ==
    /\ EncodedFile
    /\ Len(recEvents) = 2
    /\ recEvents[1].type = "on" /\ recEvents[1].velocity = Div(Double(1), Double(2))
    /\ recEvents[2].type = "on" /\ recEvents[2].velocity = Zero
    /\ recEvents[2].time = Double(267)
    /\ messageAt(midiBytes, recEvents, 1)[3] = 64
    /\ messageAt(midiBytes, recEvents, 2)[3] = 1

-----------------------------------------------------------------------------
(* The order of the decoded events.                                        *)

Ascending(events) ==
    \A i \in 1..Len(events) - 1 : LE(events[i].time, events[i + 1].time)

\* C13: whatever file was decoded, the events returned are in ascending order
\* of time, also when a tempo meta between two notes makes the later note
\* convert to an earlier time than the note before it.
C13_DecodedAscending == codecPc = "decoded" => Ascending(decoded.events)

\* note 61 at tick 96 is decoded first, at 200 ms; after the tempo change
\* note 60 at the same tick converts to 100 ms and is returned before it
C13_Witness ==
    /\ codecPc = "decoded"
    /\ handBuilt # NoShape
    /\ handBuilt.items = << Item("on", 96, <<144, 61, 127>>),
                            Item("tempo", 0, <<255, 81, 3, 7, 161, 32>>),
                            Item("on", 0, <<144, 60, 64>>) >>
    /\ handBuilt.header /\ handBuilt.eot
    /\ handBuilt.cut = 0 /\ handBuilt.extra = 0
    /\ Len(decoded.events) = 2
    /\ decoded.events[1].note = 60 /\ decoded.events[1].time = Double(100)
    /\ decoded.events[2].note = 61 /\ decoded.events[2].time = Double(200)

-----------------------------------------------------------------------------
(* How the hardware MIDI handler classifies a message.                     *)

Called(made, fn, note) ==
    \E i \in 1..Len(made) : made[i].fn = fn /\ made[i].note = note

\* A step in which the hardware handler was given a message that is a
\* note-on or a note-off by its status nibble, on whatever channel
MidiReported ==
    /\ lastIntent' # lastIntent
    /\ lastIntent'.intent.source = "midi"

\* C14: a message of at least 3 bytes with status nibble 0x9 and velocity > 0
\* is handled as a note-on (the note is pressed and the sound engine is asked
\* to play it), and one with status nibble 0x8, or 0x9 with velocity 0, as a
\* note-off (the note is released and the sound engine is asked to stop it),
\* on every channel.
C14_Step ==
    MidiReported =>
        LET note == lastIntent'.intent.note
        IN  IF lastIntent'.intent.kind = "on"
            THEN Has(activeNotes', note) /\ Called(calls', "playNote", note)
            ELSE ~Has(activeNotes', note) /\ Called(calls', "stopNote", note)

C14_MidiClassification == [][C14_Step]_vars

-----------------------------------------------------------------------------
(* Note-off for a note that is not pressed.                                *)

\* The animation target of a key; a key never animated rests at 0.
TargetOrRest(anims, n) == IF n \in DOMAIN anims THEN anims[n].target ELSE 0

\* A step that handled a note-off intent, from the hardware handler or the
\* pointer, for a note that was not in the pressed set
OffForUnpressed ==
    /\ lastIntent' # lastIntent
    /\ lastIntent'.intent.kind = "off"
    /\ lastIntent'.intent.source \in {"midi", "pointer"}
    /\ ~Has(activeNotes, lastIntent'.intent.note)

\* C15: a note-off intent for a note that is not in the pressed set releases
\* nothing in the sound engine (no stopNote), reports no note-off to the
\* recorder (no onNoteOff) and leaves the key's animation target as it was.
C15_Step ==
    OffForUnpressed =>
        LET note == lastIntent'.intent.note
        IN  /\ ~Called(calls', "stopNote", note)
            /\ ~Called(calls', "onNoteOff", note)
            /\ TargetOrRest(keyAnimations', note) = TargetOrRest(keyAnimations, note)

C15_UnpressedOffIsNoOp == [][C15_Step]_vars

-----------------------------------------------------------------------------
(* What a handler's calls append to the recording in progress.             *)

\* App.tsx wires onNoteOn to handleNoteOn and onNoteOff to handleNoteOff.
\* The events the calls of one handler have pushed onto the current recording
\* when the handler is over: one per onNoteOff, and one per onNoteOn unless
\* handleNoteOn has to await initializeAudio(); none while recording is not
\* active.
recordedBy(made) ==
    LET before == Len(currentRecording.events)
        after == dispatch(Recorder, made).current.events
    IN  [i \in 1..(Len(after) - before) |->
            [type |-> after[before + i].type, note |-> after[before + i].note]]

Appended(made, type, note) ==
    Cardinality({i \in 1..Len(recordedBy(made)) :
                    recordedBy(made)[i] = [type |-> type, note |-> note]})

\* The handleNoteOn calls for the note the handler left awaiting
\* initializeAudio(): their On is pushed when it resolves
Awaiting(made, note) ==
    LET before == Len(pendingNoteOns)
        after == dispatch(Recorder, made).pending
    IN  Cardinality({i \in (before + 1)..Len(after) : after[i].note = note})

RecordingActive == isRecordingRef /\ currentRecording # NoRecording

\* C16: with recording active, a handler step that takes a note into the
\* pressed set appends exactly one On event for it (at once, or when the
\* audio initialization it awaits is over), and one that takes a note out of
\* the pressed set exactly one Off event, whatever the source of the input
\* and whether sound is on or off.
C16_Step ==
    RecordingActive =>
        \A n \in Notes :
            /\ (~Has(activeNotes, n) /\ Has(activeNotes', n))
                  => Appended(calls', "on", n) + Awaiting(calls', n) = 1
            /\ (Has(activeNotes, n) /\ ~Has(activeNotes', n))
                  => Appended(calls', "off", n) = 1

C16_TransitionsRecorded == [][C16_Step]_vars

\* The same for the hardware handler and for the pointer with sound on, where
\* it holds.
C16_HardwareAndSoundingPointer ==
    [][(lastIntent' # lastIntent
        /\ (lastIntent'.intent.source = "midi"
            \/ (lastIntent'.intent.source = "pointer" /\ isSoundOn))) => C16_Step]_vars

-----------------------------------------------------------------------------
(* A start whose event data is missing or empty.                           *)

\* The continuation of a start found that getRecordingEvents resolved to no
\* events (the fetch or the decoding failed, or the file holds none)
FetchedNothing ==
    /\ EngineStepped
    /\ lastPlayback'.op = "fetch"
    /\ lastPlayback'.outcome = "empty"

\* A step in which a session loaded its events and requested its first frame
LoadedEvents ==
    /\ EngineStepped
    /\ lastPlayback'.outcome = "scheduled"

\* C17: when the event data of a start is missing or empty the start
\* returns: it requests no frame, adds no ghost note, loads no events and
\* waits for nothing; and no session ever loads an empty event list and
\* requests a frame for it.
C17_Step ==
    /\ FetchedNothing =>
          /\ sessions'[lastPlayback'.session].pc = "returned"
          /\ rafPending' = rafPending
          /\ playbackRaf' = playbackRaf
          /\ playbackNotes' = playbackNotes
          /\ playbackEvents' = playbackEvents
          /\ waiters' = waiters
          /\ keyAnimations' = keyAnimations
    /\ LoadedEvents => lastPlayback'.loaded.rawEvents # <<>>

C17_NoEventsNoPlayback == [][C17_Step]_vars

\* the current session found no events and its audio plays on: the start
\* has returned, nothing is requested, no ghost note is shown
C17_Witness ==
    /\ lastPlayback.op = "fetch"
    /\ lastPlayback.outcome = "empty"
    /\ lastPlayback.session = playbackRequestId
    /\ sessions[lastPlayback.session].pc = "returned"
    /\ ~audio[sessions[lastPlayback.session].audio].paused
    /\ rafPending = <<>>
    /\ playbackNotes = <<>>

-----------------------------------------------------------------------------
(* The palette of ghost and pressed keys.                                  *)

StyleOf(n) == drawnStyle(keyAnimations, playbackNotes, activeNotes, n)

InBoth(n) == Has(playbackNotes, n) /\ Has(activeNotes, n)

\* drawn far enough down to show a pressed palette: progress > 0.5
DrawnDown(n) ==
    n \in DOMAIN keyAnimations /\ GT(keyAnimations[n].progress, halfway)

\* C18: a key is drawn gray only when its note is in the ghost set and not in
\* the pressed set, and a note in both sets is always drawn with the pressed
\* palette.
C18_PressedWins ==
    \A n \in Notes :
        /\ StyleOf(n) = "ghost" => (Has(playbackNotes, n) /\ ~Has(activeNotes, n))
        /\ InBoth(n) => StyleOf(n) = "pressed"

\* C18 as amended: a key is drawn gray only when its note is in
\* the ghost set and not in the pressed set; a note in both sets is headed
\* down (target 1), is never drawn gray, and is drawn with the pressed
\* palette once it is drawn down.
C18_NeverGray ==
    \A n \in Notes :
        /\ StyleOf(n) = "ghost" => (Has(playbackNotes, n) /\ ~Has(activeNotes, n))
        /\ InBoth(n) =>
              /\ StyleOf(n) # "ghost"
              /\ TargetOrRest(keyAnimations, n) = 1
              /\ DrawnDown(n) => StyleOf(n) = "pressed"

\* 60 is played back and held on the hardware keyboard, 61 is played back
\* only; both are drawn down: 60 with the pressed palette, 61 gray
C18_Witness ==
    /\ InBoth(60)
    /\ DrawnDown(60)
    /\ StyleOf(60) = "pressed"
    /\ Has(playbackNotes, 61) /\ ~Has(activeNotes, 61)
    /\ StyleOf(61) = "ghost"

-----------------------------------------------------------------------------
(* ticksToMs and msToTicks as inverses.                                    *)

\* The tempo a conversion is meant to use: the one given, or 1,000,000
tempoMeant(tempo) == IF tempo = Omitted THEN 1000000 ELSE tempo

\* msToTicks(ticksToMs(k, t), t) = k
C19_TicksAndBack == timing.pc = "ticks_back" => timing.ticks = timing.from

\* with the tempo omitted a conversion gives what it gives for a tempo of
\* 1,000,000 microseconds per quarter note
C19_DefaultTempo ==
    /\ timing.pc = "ticks_back" =>
          timing.ms = ticksToMs(timing.from, tempoMeant(timing.tempo))
    /\ timing.pc = "ms_back" =>
          timing.ticks = msToTicks(timing.from, tempoMeant(timing.tempo))

\* |ticksToMs(msToTicks(ms, t), t) - ms| <= half a tick, t / 960000 ms, in
\* exact arithmetic
C19_MsAndBack ==
    timing.pc = "ms_back" =>
        Within(timing.ms, timing.from, tempoMeant(timing.tempo), 960000)

\* C19: converting a tick count to ms and back gives the tick count again;
\* converting a time ms >= 0 to ticks and back gives a time within half a
\* tick of ms; and with the tempo omitted both conversions use 1,000,000
\* microseconds per quarter note (1000/480 ms per tick).
C19_TimingInverse == C19_TicksAndBack /\ C19_MsAndBack /\ C19_DefaultTempo

\* C19, the part that holds: ticks to ms and back is the identity, and an
\* omitted tempo is 1,000,000.
C19_TicksInverse == C19_TicksAndBack /\ C19_DefaultTempo

-----------------------------------------------------------------------------
(* The wait for the audio metadata.                                        *)

IsWaiting(s) == s <= Len(sessions) /\ sessions[s].pc = "waiting"
HasProceeded(s) == s <= Len(sessions) /\ sessions[s].pc = "returned"

\* Every session inside the wait has its listener and timer pending, once.
C20_WaitersPending ==
    \A s \in 1..Len(sessions) :
        Occurrences(waiters, s) = (IF sessions[s].pc = "waiting" THEN 1 ELSE 0)

\* A session starts waiting only when the duration of its audio is unknown;
\* a session that leaves the wait has requested exactly one frame and has
\* neither listener nor timer left; a session that has proceeded never
\* proceeds again; and a wait that times out with the duration still unknown
\* loads the events unscaled and requests its frame.
C20_Step ==
    /\ \A s \in 1..Len(sessions') :
          /\ (~IsWaiting(s) /\ sessions'[s].pc = "waiting") =>
                readDuration(audio[sessions'[s].audio]) = Null
          /\ (IsWaiting(s) /\ sessions'[s].pc # "waiting") =>
                /\ sessions'[s].pc = "returned"
                /\ Occurrences(rafPending', s) = 1
                /\ ~Has(waiters', s)
                /\ lastPlayback'.op \in {"loadedmetadata", "timeout"}
          /\ HasProceeded(s) => sessions'[s].pc = "returned"
    /\ (EngineStepped /\ lastPlayback'.op = "timeout"
           /\ lastPlayback'.loaded.audioDurationMs = Null) =>
          /\ playbackEvents' = lastPlayback'.loaded.rawEvents
          /\ playbackRaf' = lastPlayback'.session
          /\ Has(rafPending', lastPlayback'.session)

\* C20: a session that finds the duration unknown waits; the wait ends, by
\* the loadedmetadata signal or by its timer, whichever is first; the start
\* then proceeds exactly once; and when the timer ends the wait with the
\* duration still unknown, playback starts with the events as recorded.
C20_MetadataWait ==
    /\ []C20_WaitersPending
    /\ [][C20_Step]_vars
    /\ \A s \in 1..MaxWaitOps : IsWaiting(s) ~> HasProceeded(s)

\* the timer ended the wait of the current session with the duration still
\* unknown: the ten-second take is loaded as recorded and a frame requested
C20_Witness ==
    /\ lastPlayback.op = "timeout"
    /\ lastPlayback.session = playbackRequestId
    /\ lastPlayback.loaded.audioDurationMs = Null
    /\ ~lastPlayback.loaded.hasTempoMeta
    /\ playbackEvents = TenSeconds
    /\ rafPending = <<playbackRequestId>>
    /\ waiters = <<>>

-----------------------------------------------------------------------------
(* The deltas encodeMidi writes.                                           *)

\* C21: encodeMidi returns for every event list, also one whose times are
\* not in order: a negative tick difference is written as a delta of zero
\* and the encoder never fails to terminate.
C21_EncodeTerminates == codecPc # "hang"

\* the tick position round(time * 0.48) of a time in whole or fractional ms
TickOf(time) == MathRound(Mul(time, ticksPerMs))

RECURSIVE SumTo(_, _)
SumTo(deltas, i) == IF i = 0 THEN 0 ELSE deltas[i] + SumTo(deltas, i - 1)

\* C22: for a recording with non-negative, non-decreasing times every delta
\* encodeMidi writes is >= 0 and the deltas up to and including event i add
\* up to round(time_i * 0.48); the decoder finds event i at that tick.
C22_DeltasSumToTick ==
    (handBuilt = NoShape /\ WellFormed(recEvents) /\ codecPc # "recorded") =>
        LET deltas == deltasFrom(recEvents, 1, 0)
        IN  /\ codecPc # "hang"
            /\ \A i \in 1..Len(recEvents) :
                  /\ deltas[i] >= 0
                  /\ SumTo(deltas, i) = TickOf(recEvents[i].time)
                  /\ codecPc = "decoded" =>
                        decoded.events[i].time =
                            ticksToMs(TickOf(recEvents[i].time), MICROSECONDS_PER_QUARTER)

\* 1 ms rounds to tick 0 and 267 ms to tick 128: deltas 0 and 128
C22_Witness ==
    /\ codecPc = "decoded"
    /\ handBuilt = NoShape
    /\ Len(recEvents) = 2
    /\ recEvents[1].time = Double(1)
    /\ recEvents[2].time = Double(267)
    /\ deltasFrom(recEvents, 1, 0) = <<0, 128>>
    /\ decoded.events[2].time = Div(Double(800), Double(3))

-----------------------------------------------------------------------------
(* Starts and stops that overlap an awaiting start (SpecPlayback).         *)

\* C23: a start continuation that was superseded while it awaited the fetch
\* or the metadata wait never writes the shared playback state: whenever a
\* continuation loads its events, resets the cursor and requests a frame,
\* its token is the current one.
C23_Step == LoadedEvents => lastPlayback'.session = playbackRequestId'

C23_SupersededNeverWrites == [][C23_Step]_vars

\* The continuation a stop is followed by, if it is the next engine step
StoppedBefore == lastPlayback.op = "stop"

\* C24: once stopPlaybackWithVisualization was called while a start awaited
\* its fetch or its metadata wait, that start requests no playback frame
\* afterwards: the engine step that follows a stop is never a continuation
\* that loads events and requests a frame.
C24_Step == (StoppedBefore /\ EngineStepped) => lastPlayback'.outcome # "scheduled"

C24_StopCancelsAwaitingStart == [][C24_Step]_vars

\* C25: while a note is in the pressed set its animation target is 1,
\* whatever synchronized playback does for the same note: a ghost Off, a
\* scrub reset and a stop all leave it at 1.
C25_PressedKeepsTarget ==
    \A n \in Members(activeNotes) : TargetOrRest(keyAnimations, n) = 1

-----------------------------------------------------------------------------
(* A note held by two sources (SpecInput).                                 *)

\* A step in which some source released the note: the pointer, a tool
\* call's timer, or a hardware note-off on channel 1
Released(note) ==
    /\ lastIntent' # lastIntent
    /\ lastIntent'.intent.kind = "off"
    /\ lastIntent'.intent.note = note
    /\ lastIntent'.intent.channel \in {0, 1}

\* After the step another source still holds the note: a tool call whose
\* timer has not fired, or the pointer resting on it
StillHeld(note) ==
    \/ \E timer \in BagToSet(agentTimers') : Has(timer.notes, note)
    \/ (pointerDown' /\ pointerNote' = note)

FullyReleased(note) ==
    /\ ~Has(activeNotes', note)
    /\ TargetOrRest(keyAnimations', note) = 0
    /\ Called(calls', "stopNote", note)

\* C26: when one source releases a note that another source still holds, the
\* note leaves the pressed set, its animation target becomes 0 and the sound
\* engine is asked to stop it: releases are not counted per source.
C26_Step == \A note \in Notes : (Released(note) /\ StillHeld(note)) => FullyReleased(note)

C26_AnyReleaseReleases == [][C26_Step]_vars

\* The same for every release but the pointer's with sound off, where it
\* holds.
C26_SoundingReleases ==
    [][(lastIntent'.intent.source # "pointer" \/ isSoundOn) => C26_Step]_vars

-----------------------------------------------------------------------------
(* Ticks of the animation driver (SpecAnim).                               *)

\* The progress of a key before a step; a key created by the step starts at 0
ProgressBefore(n) ==
    IF n \in DOMAIN keyAnimations THEN keyAnimations[n].progress ELSE Zero

\* What one tick makes of a progress under a target: progress +
\* (target - progress) * 0.15 when |target - progress| > 0.01 (compared in
\* exact arithmetic), the target otherwise
Ticked(progress, target) ==
    IF ~Within(Double(target), progress, 1, 100)
    THEN Add(progress, Mul(Sub(Double(target), progress), easing))
    ELSE Double(target)

\* A frame of the driver ran
FrameStep == framesLeft' # framesLeft

\* after lies between before and the target, ends included
Toward(before, after, target) ==
    /\ LE(before, Double(target)) => (LE(before, after) /\ LE(after, Double(target)))
    /\ GE(before, Double(target)) => (GE(before, after) /\ GE(after, Double(target)))

\* In exact arithmetic: a key farther than 0.01 from its target has moved by
\* 15% of the difference, to within 2^-50 (the roundings of the doubles stay
\* below 2^-52): |100 * (after - before) - 15 * (target - before)| <=
\* 100 * 2^-50
FifteenPercent(before, after, target) ==
    Within(Double(target), before, 1, 100)
    \/ LET moved == Exact(Sum(after, Neg(before)))
            diff == Exact(Sum(Double(target), Neg(before)))
        IN  LE(MathAbs(Exact(Sum(Product(Double(100), moved),
                                 Neg(Product(Double(15), diff))))),
               [neg |-> FALSE, m |-> <<25>>, e |-> -48])

TickedToward(before, after, target) ==
    /\ after = Ticked(before, target)
    /\ FifteenPercent(before, after, target)
    /\ Toward(before, after, target)

C29_Step ==
    \A n \in DOMAIN keyAnimations' :
       LET before == ProgressBefore(n)
           after == keyAnimations'[n].progress
       IN  IF FrameStep
           THEN /\ n \in DOMAIN keyAnimations
                /\ keyAnimations'[n].target = keyAnimations[n].target
                /\ TickedToward(before, after, keyAnimations[n].target)
           ELSE \/ after = before
                \/ \E target \in {0, 1} : TickedToward(before, after, target)

C29_InRange ==
    \A n \in DOMAIN keyAnimations :
       /\ GE(keyAnimations[n].progress, Zero)
       /\ LE(keyAnimations[n].progress, Double(1))
       /\ keyAnimations[n].target \in {0, 1}

\* C29: a tick moves every key farther than 0.01 from its target by 15% of
\* the difference and sets every other key to its target; a frame ticks every
\* key, a handler step ticks a key at most once (under a target the handler
\* gave it); progress stays within [0, 1] and never passes the target.
C29_TickRule == []C29_InRange /\ [][C29_Step]_vars

\* a key released half way down is on its way back, two ticks after the
\* release
C29_Witness ==
    /\ 60 \in DOMAIN keyAnimations
    /\ keyAnimations[60].target = 0
    /\ GT(keyAnimations[60].from, halfway)
    /\ LT(keyAnimations[60].from, Double(1))
    /\ keyAnimations[60].ticks = 2
    /\ keyAnimations[60].progress = Ticked(Ticked(keyAnimations[60].from, 0), 0)
    /\ animationId

\* C30: while no frame of the driver is requested, every key's progress
\* equals its target.
C30_IdleAtTarget ==
    ~animationId =>
        \A n \in DOMAIN keyAnimations :
           keyAnimations[n].progress = Double(keyAnimations[n].target)

\* the driver has stopped after a key went down and came back up
C30_Witness ==
    /\ ~animationId
    /\ 60 \in DOMAIN keyAnimations
    /\ keyAnimations[60].target = 0
    /\ GT(keyAnimations[60].from, Zero)
    /\ keyAnimations[60].progress = Zero

-----------------------------------------------------------------------------
(* The frames of the animation driver (SpecRender).                        *)

\* C28: at most one animate callback is requested and not yet called, and
\* there is one exactly while animationIdRef holds a handle, whatever
\* animateKey calls the hardware handler and synchronized playback make
\* between two frames.
C28_OneFramePending ==
    /\ animationFrames <= 1
    /\ animationId <=> animationFrames = 1

\* a frame is requested, and a handler has since called animateKey for
\* another key: a ghost key moves while the hardware key is on its way
C28_Witness ==
    /\ animationFrames = 1
    /\ Has(activeNotes, 60)
    /\ Has(playbackNotes, 61)
    /\ 60 \in DOMAIN keyAnimations /\ 61 \in DOMAIN keyAnimations
    /\ isMoving(keyAnimations[60])
    /\ isMoving(keyAnimations[61])
    /\ keyAnimations[60].ticks # keyAnimations[61].ticks

-----------------------------------------------------------------------------
(* Restart and convergence of the animation driver (SpecDriver).           *)

\* A handler step found the driver stopped and left some key farther than
\* 0.01 from the target it has after the step, counted from where the key
\* was before the step
LeftOffTarget ==
    /\ ~animationId
    /\ opsLeft' # opsLeft
    /\ \E n \in DOMAIN keyAnimations' :
          ~Within(Double(keyAnimations'[n].target), ProgressBefore(n), 1, 100)

C27_Restart == LeftOffTarget => (animationId' /\ animationFrames' = 1)

Settled ==
    /\ ~animationId
    /\ \A n \in DOMAIN keyAnimations :
          keyAnimations[n].progress = Double(keyAnimations[n].target)

\* C27: an animateKey call that finds the driver stopped and leaves a key
\* off its target starts the driver again; and with frames kept firing the
\* driver always comes to a stop with every key's progress at its target.
C27_DriverRestarts == [][C27_Restart]_vars /\ (animationId ~> Settled)

\* key 60 went all the way down, the driver stopped, the release started it
\* again, and the key has come all the way back up
C27_Witness ==
    /\ DOMAIN keyAnimations = {60}
    /\ keyAnimations[60].target = 0
    /\ keyAnimations[60].from = Double(1)
    /\ keyAnimations[60].progress = Zero
    /\ keyAnimations[60].ticks >= 29
    /\ ~animationId

-----------------------------------------------------------------------------
(* The cursor of the frame loop (SpecPlayback).                            *)

\* The step began a session or reset the cursor: a start, a stop, a frame
\* that found the audio paused, or a frame that found the clock moved back
CursorReset ==
    \/ lastPlayback'.op \in {"start", "stop"}
    \/ lastPlayback'.op = "run" /\ lastPlayback'.outcome \in {"reset", "paused"}

\* The last frame was one of the live session that found the audio playing
\* and the clock not moved back
FrameAdvanced == lastPlayback'.op = "run" /\ lastPlayback'.outcome = "advance"

\* event i is the last of the events from + 1 .. upto for its note
LastFor(events, i, upto) ==
    \A j \in (i + 1)..upto : events[j].note # events[i].note

\* A frame fires exactly the events from the cursor on that are due, in list
\* order, and stops at the first that is not; the ghost set is what they
\* make of it, and the key of a fired On has target 1 unless an Off for it
\* fired after it.
C31_FrameStep ==
    FrameAdvanced =>
        LET currentTimeMs == playbackLastTime'
            upto == CursorAfter(playbackEvents, playbackEventIndex, currentTimeMs)
        IN  /\ playbackEventIndex' = upto
            /\ playbackEvents' = playbackEvents
            /\ playbackNotes' = GhostAfter(playbackNotes, playbackEvents,
                                           playbackEventIndex, upto)
            /\ \A i \in (playbackEventIndex + 1)..upto :
                  LET event == playbackEvents[i]
                  IN  /\ LastFor(playbackEvents, i, upto) =>
                            Has(playbackNotes', event.note) <=> event.type = "on"
                      /\ (event.type = "on" /\ LastFor(playbackEvents, i, upto)) =>
                            TargetOrRest(keyAnimations', event.note) = 1

C31_Monotonic == playbackEventIndex' < playbackEventIndex => CursorReset

\* C31: within a session and between two resets the cursor never decreases,
\* and a frame fires the events from the cursor on, in order and each once,
\* as long as max(0, time - 75) <= currentTimeMs + 25; a fired On puts its
\* note into the ghost set with target 1, a fired Off takes it out.
C31_CursorAndFiring == [][C31_Monotonic /\ C31_FrameStep]_vars

\* The rule of one frame alone
C31_FrameRule == [][C31_FrameStep]_vars

\* the notes whose last event among events[1..upto] is an On
SoundingAt(events, upto) ==
    {events[i].note : i \in {k \in 1..upto : events[k].type = "on" /\ LastFor(events, k, upto)}}

\* the last step of the engine was a frame of the live session
FrameOfLiveSession ==
    /\ lastPlayback.op = "run"
    /\ lastPlayback.outcome \in {"reset", "advance", "paused"}

\* C32: after every frame of the live session the ghost set is the set of
\* notes whose last event below the cursor is an On, whether the frame
\* advanced, replayed after a move back, or cleared.
C32_GhostIsFold ==
    FrameOfLiveSession =>
        /\ playbackEventIndex <= Len(playbackEvents)
        /\ Members(playbackNotes) = SoundingAt(playbackEvents, playbackEventIndex)

-----------------------------------------------------------------------------
(* What synchronized playback leaves to real input (SpecPlayback).         *)

\* The refs of synchronized playback and the calls in flight
engineVars ==
    <<playbackNotes, playbackEvents, playbackEventIndex, playbackRaf, playbackLastTime,
      playbackRequestId, sessions, waiters, rafPending, lastPlayback>>

\* A step that changed the state of synchronized playback: a start, a stop,
\* a continuation of a start, or a frame
PlaybackActed == engineVars' # engineVars

SoundOrRecorder == {"playNote", "stopNote", "onNoteOn", "onNoteOff"}

\* C33: a step of synchronized playback (a ghost On or Off fired, a reset
\* after a move back, a clear on stop) leaves the pressed set as it is, calls
\* neither the sound engine's note start nor its release, and appends
\* nothing to the recording.
C33_Step ==
    PlaybackActed =>
        /\ activeNotes' = activeNotes
        /\ \A i \in 1..Len(calls') : calls'[i].fn \notin SoundOrRecorder
        /\ recordedBy(calls') = <<>>

C33_PlaybackIsVisualOnly == [][C33_Step]_vars

\* a frame has fired ghost notes 60 and 61 while hardware key 60 is held:
\* the pressed set is still the held key alone and nothing was called
C33_Witness ==
    /\ lastPlayback.op = "run"
    /\ lastPlayback.outcome = "advance"
    /\ playbackEventIndex = 2
    /\ playbackNotes = <<60, 61>>
    /\ activeNotes = <<60>>
    /\ calls = <<>>
    /\ TargetOrRest(keyAnimations, 60) = 1
    /\ TargetOrRest(keyAnimations, 61) = 1

-----------------------------------------------------------------------------
(* A pointer move (SpecInput).                                             *)

\* The step is handlePointerMove with note as what the coordinates resolved to
MovedTo(note) ==
    /\ opsLeft' = opsLeft - 1
    /\ handlePointerMove(note)

NoteOffFor(note) ==
    /\ Called(calls', "onNoteOff", note)
    /\ isSoundOn => Called(calls', "stopNote", note)
    /\ ~Has(activeNotes', note)
    /\ TargetOrRest(keyAnimations', note) = 0

NoteOnFor(note) ==
    /\ Called(calls', "onNoteOn", note)
    /\ isSoundOn => Called(calls', "playNote", note)
    /\ Has(activeNotes', note)
    /\ TargetOrRest(keyAnimations', note) = 1

OffBeforeOn ==
    \A i, j \in 1..Len(calls') :
       (calls'[i].fn \in {"stopNote", "onNoteOff"} /\ calls'[j].fn \in {"playNote", "onNoteOn"})
           => i < j

C34_Step ==
    \A note \in Notes \cup {Null} :
       MovedTo(note) =>
          IF ~pointerDown \/ note = pointerNote
          THEN /\ calls' = <<>>
               /\ UNCHANGED <<activeNotes, keyAnimations, animationId, pointerNote,
                              pointerDown, lastIntent>>
          ELSE /\ pointerNote' = note
               /\ pointerDown'
               /\ pointerNote # Null => NoteOffFor(pointerNote)
               /\ (note # Null /\ ~Has(activeNotes, note)) => NoteOnFor(note)
               /\ OffBeforeOn
               /\ note = Null =>
                     \A i \in 1..Len(calls') : calls'[i].fn \notin {"playNote", "onNoteOn"}

\* C34: while the pointer is down, a move to another note performs the
\* note-off for the tracked note before the note-on for the new one; a move
\* to no note performs the note-off alone and leaves no tracked note; a move
\* to the tracked note, or with the pointer up, changes nothing.
C34_MoveIsOffThenOn == [][C34_Step]_vars

\* the pointer slid from key 60 to key 61 with sound on
C34_Witness ==
    /\ pointerDown
    /\ pointerNote = 61
    /\ activeNotes = <<61>>
    /\ calls = <<Call("stopNote", 60, 0), Call("onNoteOff", 60, 0),
                 Call("playNote", 61, 100), Call("onNoteOn", 61, 100)>>
    /\ TargetOrRest(keyAnimations, 60) = 0
    /\ TargetOrRest(keyAnimations, 61) = 1

-----------------------------------------------------------------------------
(* Properties of recording (SpecRecording).                                *)

\* The step pushed events onto the current recording
EventsPushed ==
    /\ currentRecording'.id = currentRecording.id
    /\ Len(currentRecording'.events) > Len(currentRecording.events)

\* The step was a finalization that saved a recording
Finalized ==
    /\ finalizeTimers # <<>>
    /\ finalizeTimers' = Tail(finalizeTimers)
    /\ Len(recordings') > Len(recordings)

\* Events are pushed only while recording is active
C35_OnlyWhileActive == EventsPushed => (isRecordingRef /\ isRecording)

\* What a finalization encodes and saves is what the recording held when it
\* was stopped
C35_EncodedAsStopped == Finalized => recordings'[1].events = Head(finalizeTimers).events

\* C35: events are appended to a recording only while recording is active
\* (not before startRecording, not after stopRecording, not during the 100 ms
\* before the finalization), so the event list that is encoded is the list
\* of events recorded between the start and the stop.
C35_RecordedWhileActive == [][C35_OnlyWhileActive /\ C35_EncodedAsStopped]_vars

\* The first half alone
C35_AppendsOnlyWhileActive == [][C35_OnlyWhileActive]_vars

\* C36: the finalization of a stop saves the recording that was active at
\* that stop, and leaves a recording started since then in
\* currentRecordingRef, so that its later events are still appended.
C36_Step ==
    (finalizeTimers # <<>> /\ finalizeTimers' = Tail(finalizeTimers)) =>
        LET stopped == Head(finalizeTimers)
        IN  /\ Finalized => recordings'[1].id = stopped.id
            /\ currentRecording.id # stopped.id => currentRecording' = currentRecording

C36_FinalizesTheStopped == [][C36_Step]_vars

\* C37: every On event in the current recording and in the saved recordings
\* has a velocity between 0 and 1.
Normalized(events) ==
    \A i \in 1..Len(events) :
       events[i].type = "on" => (events[i].velocity >= 0 /\ events[i].velocity <= 1)

C37_VelocityNormalized ==
    /\ Normalized(currentRecording.events)
    /\ \A k \in 1..Len(recordings) : Normalized(recordings[k].events)

\* C38: the events of a recording are in the order in which the piano's
\* handlers reported them: for a press followed by its release the On comes
\* before the Off.
InOrderReported(events) ==
    \A i, j \in 1..Len(events) : i < j => events[i].called <= events[j].called

C38_OnBeforeOff == InOrderReported(currentRecording.events)


-----------------------------------------------------------------------------
(* The decoder on events it does not report, and on the header chunk.      *)

\* A complete hand-constructed file: nothing cut, the declared track length
\* the real one, the end-of-track meta in place.
CompleteStream ==
    /\ handBuilt # NoShape
    /\ handBuilt.eot
    /\ handBuilt.extra = 0
    /\ handBuilt.cut = 0

HasKind(kind) == \E i \in 1..Len(handBuilt.items) : handBuilt.items[i].kind = kind

\* The decoded events are the note events of the items, each at its own time.
DecodedAtBoundaries ==
    LET expected == expectedNotes(handBuilt.items, 1, 0, 1000000)
    IN  /\ Len(decoded.events) = Len(expected)
        /\ \A i \in 1..Len(expected) :
              Count(decoded.events, expected[i]) = Count(expected, expected[i])

\* C39 as stated: a complete file holding a meta event other than tempo or a
\* channel event other than note-on/note-off (here a text meta, a control
\* change) decodes to exactly its note events: the skipped event gives no
\* event and every event after it is read at its own bytes.
C39_SkipsDeclaredLength ==
    (codecPc = "decoded" /\ CompleteStream /\ (HasKind("text") \/ HasKind("cc"))) =>
        DecodedAtBoundaries

\* C39 (part that holds): a meta event other than tempo is skipped by its
\* declared length.
C39_MetaSkipped ==
    (codecPc = "decoded" /\ CompleteStream /\ HasKind("text") /\ ~HasKind("cc")) =>
        DecodedAtBoundaries

\* C40 as stated: a file that does not begin with 'MThd' decodes to the empty
\* result (no events, no tempo meta, the default tempo), whatever track chunk
\* its bytes hold.
C40_HeaderValidated ==
    (codecPc = "decoded" /\ handBuilt # NoShape /\ ~handBuilt.header) =>
        /\ decoded.events = <<>>
        /\ ~decoded.hasTempoMeta
        /\ decoded.microsecondsPerQuarter = 1000000

=============================================================================
